---- MODULE Spec2Model ----
(***************************************************************************)
(* A model of the analysis engine of the Yahoo Fantasy Baseball analyzer:  *)
(* the week calculator, the name normalizer, the MLB schedule client with  *)
(* its team-schedule cache, the second-start check, the pitcher matcher    *)
(* and the result filter of the analysis tab.                              *)
(*                                                                         *)
(* Dates are day ordinals: day 0 is Monday 2024-01-01, so d % 7 is         *)
(* Python's date.weekday() (0 = Monday).  Ownership percentages are kept   *)
(* in tenths of a percent (400 is 40.0).                                   *)
(***************************************************************************)
EXTENDS Integers, Sequences, FiniteSets, TLC

VARIABLES
    pc,                   \* position of the run inside _run_analysis / analyze_next_fantasy_week
    today,                \* date.today()
    fantasy_week,         \* the FantasyWeek object of the run, or NoValue
    next_week,            \* result of date_utils.get_next_fantasy_week, or <<>>
    error,                \* the exception that ended the operation, or "none"
    waiver_pitchers,      \* List[Player] built by _get_waiver_pitchers
    my_team_pitchers,     \* List[Player] built by _get_my_team_pitchers
    all_pitchers,         \* List[Player] built by _combine_pitcher_data
    confirmed_starters,   \* dict pid -> info, as the sequence of its items in insertion order
    starter_index,        \* position of the loop of _analyze_matched_pitchers in confirmed_starters
    pitcher_analyses,     \* List[PitcherAnalysis] of _analyze_matched_pitchers
    settings,             \* analysis settings of the sidebar
    analysis_results,     \* st.session_state['analysis_results'], or NoValue
    team_schedule_cache,  \* MLBStatsClient._team_schedule_cache
    mlb_games,            \* upstream MLB schedule: team id -> response dates (in response order)
    mlb_up,               \* whether the upstream MLB schedule endpoint answers
    upstream_calls,       \* number of upstream schedule requests issued
    first_start,          \* argument first_start_date of a second-start check
    second_start,         \* <<result>> of MLBStatsClient.check_potential_second_start, or <<>>
    svc_second_start,     \* <<result>> of AnalysisService._check_potential_second_start, or <<>>
    failed_fetches,       \* the fetches of the run that ended in their except branch
    schedule_log,         \* the calls made on one MLBStatsClient by its caller, with their outcomes
    upstream_answers,     \* the answers upstream holds for the fetches of the run, where they are
                          \* fixed before the run; NoValue for an answer drawn at its request
    text_in,              \* the argument of text_utils.slugify
    text_out,             \* the values slugify returned: for text_in, then for its own result
    target_dates,         \* <<outcome>> of FantasyWeek.target_dates, or <<>>
    analysis_dates,       \* <<result>> of date_utils.get_target_analysis_dates, or <<>>
    clock,                \* time.time(), in whole seconds
    session_cache,        \* st.session_state.cache_data: key -> <<entry>>, or <<>> when absent
    memory_cache,         \* CacheService instance -> its _memory_cache, for the instances built
    last_write,           \* key -> the latest set, delete or clear of it through any instance
    last_get,             \* <<outcome>> of a get when it was the latest call, or <<>>
    cache_ops             \* number of get, set, delete and clear calls made

\* the state of the helpers that are exercised on their own, outside a run
target_vars == <<target_dates, analysis_dates>>

store_vars == <<clock, session_cache, memory_cache, last_write, last_get, cache_ops>>

lib_vars == <<text_in, text_out, target_vars, store_vars>>

\* the keys the callers of the cache use
Keys == {"k", "j"}

\* no CacheService has been built and nothing is cached
UnusedStore ==
    /\ clock = 0
    /\ session_cache = [key \in Keys |-> <<>>]
    /\ memory_cache = <<>>
    /\ last_write = [key \in Keys |-> [op |-> "none", value |-> 0, ttl |-> <<>>, at |-> 0]]
    /\ last_get = <<>>
    /\ cache_ops = 0

\* the helpers are not in use
LibIdle ==
    /\ text_in = <<>>
    /\ text_out = <<>>
    /\ target_dates = <<>>
    /\ analysis_dates = <<>>
    /\ UnusedStore

vars == <<pc, today, fantasy_week, next_week, error, waiver_pitchers, my_team_pitchers,
          all_pitchers, confirmed_starters, starter_index, pitcher_analyses, settings,
          analysis_results,
          team_schedule_cache, mlb_games, mlb_up, upstream_calls, first_start,
          second_start, svc_second_start, failed_fetches,
          schedule_log, upstream_answers, lib_vars>>

NoValue == [none |-> TRUE]

\* no answer is fixed before the run
NoAnswers == [waiver |-> NoValue, roster |-> NoValue, starters |-> NoValue]

\* the answers a fetch can get: the one fixed before the run, or any of the given ones
AnswersTo(fetch, any) ==
    IF "none" \in DOMAIN upstream_answers[fetch] THEN any ELSE {upstream_answers[fetch]}

(***************************************************************************)
(* Bounds of the model.                                                    *)
(***************************************************************************)
\* today ranges over 0 .. MaxToday (2024-01-01 .. early 2027)
MaxToday == 1100
\* longest roster / waiver response
MaxPool == 2
\* longest probable-starters response
MaxStarts == 2
\* the longest list of matches handed to the ranker on its own
MaxRank == 3
\* the number of calls made on one MLBStatsClient
MaxCalls == 3
\* the longest string handed to slugify
MaxLen == 4
\* the number of get, set, delete and clear calls made on the cache services
MaxOps == 3

(***************************************************************************)
(* The proleptic Gregorian calendar of datetime.date.                      *)
(***************************************************************************)
IsLeap(y) == (y % 4 = 0 /\ y % 100 # 0) \/ y % 400 = 0

YearLength(y) == IF IsLeap(y) THEN 366 ELSE 365

RECURSIVE YearStart(_)
\* ordinal of January 1st of year y (y >= 2024)
YearStart(y) == IF y <= 2024 THEN 0 ELSE YearStart(y - 1) + YearLength(y - 1)

RECURSIVE YearFrom(_, _)
YearFrom(d, y) == IF d < YearStart(y + 1) THEN y ELSE YearFrom(d, y + 1)

\* date.year
YearOf(d) == YearFrom(d, 2024)

MonthLength(y, m) ==
    IF m = 2 THEN (IF IsLeap(y) THEN 29 ELSE 28)
    ELSE IF m \in {4, 6, 9, 11} THEN 30 ELSE 31

RECURSIVE MonthStart(_, _)
\* ordinal of the first day of month m of year y
MonthStart(y, m) == IF m = 1 THEN YearStart(y) ELSE MonthStart(y, m - 1) + MonthLength(y, m - 1)

RECURSIVE MonthFrom(_, _, _)
MonthFrom(d, y, m) == IF m = 12 \/ d < MonthStart(y, m + 1) THEN m ELSE MonthFrom(d, y, m + 1)

\* date.month
MonthOf(d) == MonthFrom(d, YearOf(d), 1)

\* date.day
DayOf(d) == d - MonthStart(YearOf(d), MonthOf(d)) + 1

\* date.weekday(): 0 = Monday .. 6 = Sunday
Weekday(d) == d % 7

\* date.isocalendar()[1]: the ISO week is the week of the year that holds its Thursday
IsoWeek(d) ==
    LET thursday == d - Weekday(d) + 3
    IN  ((thursday - YearStart(YearOf(thursday))) \div 7) + 1

\* the dates the model handles
Days == 0..(MaxToday + 30)

\* date.isoformat(): the text YYYY-MM-DD, kept as its three numbers; tabulated over Days
IsoFormatOfDay == [d \in Days |-> <<YearOf(d), MonthOf(d), DayOf(d)>>]

IsoFormat(d) == IsoFormatOfDay[d]

\* datetime.strptime(s, '%Y-%m-%d').date()
ParseDate(s) == MonthStart(s[1], s[2]) + s[3] - 1

(***************************************************************************)
(* text_utils.slugify.  A string is a sequence of characters; the alphabet *)
(* holds one character of every class the function tells apart.            *)
(***************************************************************************)
Chars == {"e", "E", "e_acute", "o_stroke", "1", "_", "-", " ", "."}

IsSpace(c) == c = " "

\* \w of the regular expressions, on ASCII text
IsWord(c) == c \in {"e", "E", "1", "_"}

\* unicodedata.normalize('NFKD', c).encode('ascii', 'ignore').decode('ascii')
AsciiFold(c) ==
    IF c = "e_acute" THEN <<"e">>
    ELSE IF c = "o_stroke" THEN <<>>
    ELSE <<c>>

RECURSIVE AsciiFoldAll(_)
AsciiFoldAll(s) == IF s = <<>> THEN <<>> ELSE AsciiFold(Head(s)) \o AsciiFoldAll(Tail(s))

KeptBySub(c) == IsWord(c) \/ IsSpace(c) \/ c = "-"

\* re.sub(r'[^\w\s-]', '', value)
RemovePunctuation(s) == SelectSeq(s, KeptBySub)

RECURSIVE LStrip(_)
LStrip(s) == IF s # <<>> /\ IsSpace(Head(s)) THEN LStrip(Tail(s)) ELSE s

RECURSIVE RStrip(_)
RStrip(s) == IF s # <<>> /\ IsSpace(s[Len(s)]) THEN RStrip(SubSeq(s, 1, Len(s) - 1)) ELSE s

\* str.strip()
Strip(s) == RStrip(LStrip(s))

\* a lower() that swaps the case of a letter
LowerChar_SwapCase(c) == IF c = "E" THEN "e" ELSE IF c = "e" THEN "E" ELSE c

LowerChar(c) == IF c = "E" THEN "e" ELSE c

\* str.lower()
Lower(s) == [i \in 1..Len(s) |-> LowerChar(s[i])]

IsSeparator(c) == c = "-" \/ IsSpace(c)

RECURSIVE SkipSeparators(_)
SkipSeparators(s) == IF s # <<>> /\ IsSeparator(Head(s)) THEN SkipSeparators(Tail(s)) ELSE s

RECURSIVE CollapseSeparators(_)
\* re.sub(r'[-\s]+', '-', value)
CollapseSeparators(s) ==
    IF s = <<>> THEN <<>>
    ELSE IF IsSeparator(Head(s)) THEN <<"-">> \o CollapseSeparators(SkipSeparators(s))
    ELSE <<Head(s)>> \o CollapseSeparators(Tail(s))

\* Python's None where a string is expected
NoneStr == <<"None">>

\* slugify(value)
slugify(value) ==
    IF value = NoneStr THEN <<>>
    ELSE CollapseSeparators(Lower(Strip(RemovePunctuation(AsciiFoldAll(value)))))

(***************************************************************************)
(* The week calculator.                                                    *)
(***************************************************************************)
\* the days to the next Monday of both week calculators
DaysUntilNextMonday(d) ==
    LET days_until_next_monday == (7 - Weekday(d)) % 7
    IN  IF days_until_next_monday = 0 THEN 7 ELSE days_until_next_monday

\* date_utils.get_next_fantasy_week: (next_monday, next_sunday)
GetNextFantasyWeekDates(d) ==
    LET next_monday == d + DaysUntilNextMonday(d)
    IN  <<next_monday, next_monday + 6>>

\* the field constraint of FantasyWeek.week_number: Field(..., ge=1, le=52)
WeekNumberValid(week_number) == week_number >= 1 /\ week_number <= 52

\* the FantasyWeek built by AnalysisService._calculate_next_fantasy_week, or the
\* ValidationError its constructor raises
CalculateNextFantasyWeekValue(d) ==
    LET start_date == d + DaysUntilNextMonday(d)
        end_date == start_date + 6
        week_number == IsoWeek(start_date)
    IN  IF WeekNumberValid(week_number)
        THEN [start_date |-> start_date,
              end_date |-> end_date,
              week_number |-> week_number,
              target_days |-> <<"Monday", "Tuesday">>,
              total_pitchers_analyzed |-> 0,
              my_team_pitchers |-> 0,
              waiver_pitchers |-> 0,
              analysis_completed |-> FALSE]
        ELSE [raised |-> "ValidationError"]

IsRaised(v) == "raised" \in DOMAIN v

(***************************************************************************)
(* Players and the Yahoo responses.                                        *)
(***************************************************************************)
\* AnalysisService._is_pitcher on the raw position list
IsPitcherPositions(positions) == \E i \in 1..Len(positions) : positions[i] \in {"SP", "RP", "P"}

\* the field constraint of Player.percent_owned: Field(0.0, ge=0.0, le=100.0), in tenths
PercentOwnedValid(percent_owned) == percent_owned >= 0 /\ percent_owned <= 1000

\* Player(...) as the service builds it from one response record
NewPlayer(player_data, source) ==
    IF player_data.name = NoneStr \/ ~PercentOwnedValid(player_data.percent_owned)
    THEN [raised |-> "ValidationError"]
    ELSE [name |-> player_data.name,
          yahoo_player_id |-> player_data.player_id,
          percent_owned |-> player_data.percent_owned,
          source |-> source,
          mlb_player_id |-> 0,
          confirmed_start_date |-> -1,
          potential_second_start |-> FALSE]

RECURSIVE PitchersFrom_SkipsInvalid(_, _)
\* a loop that passes over a record that fails validation and goes on with the next
PitchersFrom_SkipsInvalid(data, source) ==
    IF data = <<>> THEN [raised |-> "none", pitchers |-> <<>>]
    ELSE IF ~IsPitcherPositions(Head(data).eligible_positions)
    THEN PitchersFrom_SkipsInvalid(Tail(data), source)
    ELSE LET player == NewPlayer(Head(data), source)
             rest == PitchersFrom_SkipsInvalid(Tail(data), source)
         IN  IF IsRaised(player) THEN rest
             ELSE [raised |-> rest.raised, pitchers |-> <<player>> \o rest.pitchers]

RECURSIVE PitchersFrom(_, _)
\* the loop of _get_waiver_pitchers / _get_my_team_pitchers over a response:
\* the players appended so far and the exception that left the loop, if any
PitchersFrom(data, source) ==
    IF data = <<>> THEN [raised |-> "none", pitchers |-> <<>>]
    ELSE IF ~IsPitcherPositions(Head(data).eligible_positions) THEN PitchersFrom(Tail(data), source)
    ELSE LET player == NewPlayer(Head(data), source)
             rest == PitchersFrom(Tail(data), source)
         IN  IF IsRaised(player) THEN [raised |-> player.raised, pitchers |-> <<>>]
             ELSE [raised |-> rest.raised, pitchers |-> <<player>> \o rest.pitchers]

\* a fetcher that returns the players built before the exception
PitchersOrEmpty_KeepsBuilt(response, source) ==
    IF response.failed THEN <<>> ELSE PitchersFrom(response.data, source).pitchers

\* what the try/except of both fetchers returns: the players of the response, or []
\* after any exception (a failed fetch, a record that fails validation)
PitchersOrEmpty(response, source) ==
    IF response.failed THEN <<>>
    ELSE LET result == PitchersFrom(response.data, source)
         IN  IF result.raised # "none" THEN <<>> ELSE result.pitchers

\* whether the try block of a fetcher is left through its except branch
PitchersFailed(response, source) ==
    response.failed \/ PitchersFrom(response.data, source).raised # "none"

\* a merger that leaves out a roster player whose Yahoo id is already in the waiver list
CombinePitcherData_Dedup(waiver, my_team) ==
    waiver \o SelectSeq(my_team, LAMBDA p : \A i \in 1..Len(waiver) :
                                      waiver[i].yahoo_player_id # p.yahoo_player_id)

\* _combine_pitcher_data(waiver_pitchers, my_team_pitchers)
CombinePitcherData(waiver, my_team) == waiver \o my_team

(***************************************************************************)
(* MLBStatsClient: probable starters.  A dict is the sequence of its items *)
(* in insertion order; the upstream response is the sequence of its        *)
(* probable-pitcher entries in the order of the nested loops.              *)
(***************************************************************************)
HasKey(dict, pid) == \E i \in 1..Len(dict) : dict[i].pid = pid

RECURSIVE CollectStarters_KeepLast(_, _, _, _)
\* a loop that stores every start it meets over the one stored for the pitcher id
CollectStarters_KeepLast(entries, lo, hi, dict) ==
    IF entries = <<>> THEN dict
    ELSE LET e == Head(entries)
             game_date == ParseDate(e.date)
             info == [pid |-> e.id, name |-> e.fullName, date |-> game_date, team_id |-> e.team_id]
         IN  IF lo <= game_date /\ game_date <= hi
             THEN CollectStarters_KeepLast(Tail(entries), lo, hi,
                      IF HasKey(dict, e.id)
                      THEN [i \in 1..Len(dict) |-> IF dict[i].pid = e.id THEN info ELSE dict[i]]
                      ELSE Append(dict, info))
             ELSE CollectStarters_KeepLast(Tail(entries), lo, hi, dict)

RECURSIVE CollectStarters(_, _, _, _)
\* the loop that fills confirmed_starters from schedule entries: entries dated outside
\* lo..hi are skipped, and a pitcher id already stored is not stored again
CollectStarters(entries, lo, hi, dict) ==
    IF entries = <<>> THEN dict
    ELSE LET e == Head(entries)
             game_date == ParseDate(e.date)
         IN  IF lo <= game_date /\ game_date <= hi /\ ~HasKey(dict, e.id)
             THEN CollectStarters(Tail(entries), lo, hi,
                      Append(dict, [pid |-> e.id, name |-> e.fullName,
                                    date |-> game_date, team_id |-> e.team_id]))
             ELSE CollectStarters(Tail(entries), lo, hi, dict)

\* MLBStatsClient.get_probable_starters(start_date, end_date) on an upstream response
GetProbableStarters(response, start_date, end_date) ==
    IF response.failed THEN [raised |-> "MLBAPIError", starters |-> <<>>]
    ELSE [raised |-> "none",
          starters |-> CollectStarters(response.data, start_date, end_date, <<>>)]

RECURSIVE RegroupByDate(_, _, _)
\* the while loop of get_probable_pitchers: one 'dates' entry per day from current_date
\* to end_date that has starters, its games in the order of the starters dict
RegroupByDate(starters, current_date, end_date) ==
    IF current_date > end_date THEN <<>>
    ELSE LET todays == SelectSeq(starters, LAMBDA st : st.date = current_date)
             games == [i \in 1..Len(todays) |->
                          [date |-> IsoFormat(current_date), id |-> todays[i].pid,
                           fullName |-> todays[i].name, team_id |-> todays[i].team_id]]
         IN  games \o RegroupByDate(starters, current_date + 1, end_date)

\* MLBStatsClient.get_probable_pitchers(start_date, end_date) with string dates: the
\* entries of the returned {'dates': [...]}
GetProbablePitchers(response, start_str, end_str) ==
    LET start_date_obj == ParseDate(start_str)
        end_date_obj == ParseDate(end_str)
        got == GetProbableStarters(response, start_date_obj, end_date_obj)
    IN  IF got.raised # "none" THEN <<>>
        ELSE RegroupByDate(got.starters, start_date_obj, end_date_obj)

\* AnalysisService._get_confirmed_probable_starters(fantasy_week)
GetConfirmedProbableStarters(response, week) ==
    LET start_date_str == IsoFormat(week.start_date)
        end_date_str == IsoFormat(week.start_date + 10)
        schedule_data == GetProbablePitchers(response, start_date_str, end_date_str)
    IN  CollectStarters(schedule_data, week.start_date, week.end_date, <<>>)

(***************************************************************************)
(* MLBStatsClient: team schedule, its cache and the second-start check.    *)
(* An argument is [type, value]: a date object or the string of a date.    *)
(***************************************************************************)
DateArg(d) == [type |-> "date", value |-> d]

StrArg(d) == [type |-> "str", value |-> IsoFormat(d)]

RECURSIVE InsertSorted(_, _)
InsertSorted(x, s) ==
    IF s = <<>> THEN <<x>>
    ELSE IF x < Head(s) THEN <<x>> \o s
    ELSE <<Head(s)>> \o InsertSorted(x, Tail(s))

RECURSIVE SortDates(_)
\* list.sort() of a list of dates
SortDates(s) == IF s = <<>> THEN <<>> ELSE InsertSorted(Head(s), SortDates(Tail(s)))

CacheHas(cache, key) == \E c \in cache : c.key = key

CacheGet(cache, key) == (CHOOSE c \in cache : c.key = key).dates

\* a client that stores nothing
CachePut_Nothing(cache, key, dates) == cache

CachePut(cache, key, dates) == {c \in cache : c.key # key} \cup {[key |-> key, dates |-> dates]}

\* the upstream answer to schedule?teamId=..&startDate=..&endDate=..: the date entries
\* of the team inside the asked range, in the order upstream lists them
UpstreamSchedule(games, team_id, start_str, end_str) ==
    LET lo == ParseDate(start_str)
        hi == ParseDate(end_str)
    IN  IF team_id \in DOMAIN games
        THEN SelectSeq(games[team_id], LAMBDA di : lo <= ParseDate(di.date) /\ ParseDate(di.date) <= hi)
        ELSE <<>>

\* MLBStatsClient.get_team_schedule(team_id, start_date, end_date): the exception
\* raised (or "none"), the dates returned, the cache and the request count afterwards
GetTeamSchedule(cache, calls, games, up, team_id, start_date, end_date) ==
    IF start_date.type # "date" \/ end_date.type # "date"
    THEN \* start_date.isoformat() on a str, before the try block
         [raised |-> "AttributeError", dates |-> <<>>, cache |-> cache, calls |-> calls]
    ELSE LET start_str == IsoFormat(start_date.value)
             end_str == IsoFormat(end_date.value)
             cache_key == <<team_id, start_str, end_str>>
         IN  IF CacheHas(cache, cache_key)
             THEN [raised |-> "none", dates |-> CacheGet(cache, cache_key),
                   cache |-> cache, calls |-> calls]
             ELSE IF ~up
             THEN [raised |-> "MLBAPIError", dates |-> <<>>, cache |-> cache, calls |-> calls + 1]
             ELSE LET response == UpstreamSchedule(games, team_id, start_str, end_str)
                      with_games == SelectSeq(response, LAMBDA di : di.games)
                      game_dates == SortDates([i \in 1..Len(with_games) |->
                                                  ParseDate(with_games[i].date)])
                  IN  [raised |-> "none", dates |-> game_dates,
                       cache |-> CachePut(cache, cache_key, game_dates), calls |-> calls + 1]

\* the rule both second-start checks apply to the schedule they obtained
FifthGameInWeek(game_dates, week_end) ==
    IF Len(game_dates) >= 5 THEN game_dates[5] <= week_end ELSE FALSE

\* MLBStatsClient.check_potential_second_start(team_id, first_start_date, fantasy_week_end_date)
ClientCheckPotentialSecondStart(cache, calls, games, up, team_id, first_start_date, week_end) ==
    IF team_id = 0
    THEN [result |-> FALSE, cache |-> cache, calls |-> calls]
    ELSE LET got == GetTeamSchedule(cache, calls, games, up, team_id,
                                    DateArg(first_start_date + 1), DateArg(week_end + 5))
         IN  [result |-> IF got.raised # "none" THEN FALSE
                         ELSE FifthGameInWeek(got.dates, week_end),
              cache |-> got.cache, calls |-> got.calls]

\* a check that answers True when get_team_schedule raises
CheckPotentialSecondStart_TrueOnFailure(cache, calls, games, up, team_id, first_start_date, week_end) ==
    LET got == GetTeamSchedule(cache, calls, games, up, team_id,
                               StrArg(first_start_date + 1), StrArg(week_end + 5))
    IN  [result |-> IF got.raised # "none" THEN TRUE
                    ELSE FifthGameInWeek(got.dates, week_end),
         cache |-> got.cache, calls |-> got.calls]

\* AnalysisService._check_potential_second_start(team_id, first_start_date, fantasy_week_end):
\* it hands get_team_schedule the isoformat strings of both dates
CheckPotentialSecondStart(cache, calls, games, up, team_id, first_start_date, week_end) ==
    LET schedule_start == first_start_date + 1
        schedule_end == week_end + 5
        got == GetTeamSchedule(cache, calls, games, up, team_id,
                               StrArg(schedule_start), StrArg(schedule_end))
    IN  [result |-> IF got.raised # "none" THEN FALSE
                    ELSE FifthGameInWeek(got.dates, week_end),
         cache |-> got.cache, calls |-> got.calls]

(***************************************************************************)
(* The matcher and the ranking of AnalysisService.                         *)
(***************************************************************************)
RECURSIVE FirstMatchFrom(_, _, _)
FirstMatchFrom(pitchers, normalized_mlb_name, i) ==
    IF i > Len(pitchers) THEN 0
    ELSE IF slugify(pitchers[i].name) = normalized_mlb_name THEN i
    ELSE FirstMatchFrom(pitchers, normalized_mlb_name, i + 1)

\* _find_matching_player that compares with the MLB name as received, not normalized
FindMatchingPlayer_RawName(pitchers, mlb_name) == FirstMatchFrom(pitchers, mlb_name, 1)

\* _find_matching_player(all_pitchers, mlb_name): the position of the player returned,
\* 0 for None
FindMatchingPlayer(pitchers, mlb_name) == FirstMatchFrom(pitchers, slugify(mlb_name), 1)

\* a score without the bonus of the second start
RecommendationScore_NoSecondStart(player, potential_second) ==
    player.percent_owned + (IF player.source = "My Team" THEN 2000 ELSE 0)

\* _calculate_recommendation_score, in thousandths
RecommendationScore(player, potential_second) ==
    player.percent_owned
    + (IF player.source = "My Team" THEN 2000 ELSE 0)
    + (IF potential_second THEN 1500 ELSE 0)

RECURSIVE JoinReasons(_)
\* "; ".join(reasons)
JoinReasons(reasons) ==
    IF reasons = <<>> THEN ""
    ELSE IF Len(reasons) = 1 THEN reasons[1]
    ELSE reasons[1] \o "; " \o JoinReasons(Tail(reasons))

\* a rationale that calls an ownership of exactly 50 low
RecommendationReason_LowAtFifty(player, potential_second) ==
    LET reasons ==
            (IF player.source = "My Team" THEN <<"Already on your team">> ELSE <<>>)
            \o (IF potential_second THEN <<"Likely second start">> ELSE <<>>)
            \o (IF player.percent_owned <= 500 THEN <<"Low ownership">>
                ELSE IF player.percent_owned > 800 THEN <<"High ownership">>
                ELSE <<>>)
    IN  IF reasons # <<>> THEN JoinReasons(reasons) ELSE "Confirmed Monday/Tuesday start"

\* _generate_recommendation_reason
RecommendationReason(player, potential_second) ==
    LET reasons ==
            (IF player.source = "My Team" THEN <<"Already on your team">> ELSE <<>>)
            \o (IF potential_second THEN <<"Likely second start">> ELSE <<>>)
            \o (IF player.percent_owned < 500 THEN <<"Low ownership">>
                ELSE IF player.percent_owned > 800 THEN <<"High ownership">>
                ELSE <<>>)
    IN  IF reasons # <<>> THEN JoinReasons(reasons) ELSE "Confirmed Monday/Tuesday start"

\* a priority that adds the ownership in tenths of a percent, up to 1000
PriorityScore_OwnershipInTenths(analysis) ==
    (IF analysis.player.source = "My Team" THEN 1000 ELSE 0)
    + (IF analysis.potential_second_start THEN 500 ELSE 0)
    + (IF analysis.is_monday_tuesday_start THEN 100 ELSE 0)
    + analysis.player.percent_owned

\* PitcherAnalysis.priority_score
PriorityScore(analysis) ==
    (IF analysis.player.source = "My Team" THEN 1000 ELSE 0)
    + (IF analysis.potential_second_start THEN 500 ELSE 0)
    + (IF analysis.is_monday_tuesday_start THEN 100 ELSE 0)
    + (analysis.player.percent_owned \div 10)

RECURSIVE InsertByPriority_BeforeEquals(_, _)
\* an insertion that puts a in front of the entries of its own priority
InsertByPriority_BeforeEquals(a, sorted) ==
    IF sorted = <<>> THEN <<a>>
    ELSE IF PriorityScore(Head(sorted)) > PriorityScore(a)
         THEN <<Head(sorted)>> \o InsertByPriority_BeforeEquals(a, Tail(sorted))
    ELSE <<a>> \o sorted

RECURSIVE InsertByPriority(_, _)
\* a goes behind every entry whose priority is not lower: equal keys keep their order
InsertByPriority(a, sorted) ==
    IF sorted = <<>> THEN <<a>>
    ELSE IF PriorityScore(Head(sorted)) >= PriorityScore(a)
         THEN <<Head(sorted)>> \o InsertByPriority(a, Tail(sorted))
    ELSE <<a>> \o sorted

RECURSIVE SortByPriorityFrom(_, _)
SortByPriorityFrom(analyses, sorted) ==
    IF analyses = <<>> THEN sorted
    ELSE SortByPriorityFrom(Tail(analyses), InsertByPriority(Head(analyses), sorted))

\* no sort at all
SortByPriority_Unsorted(analyses) == analyses

\* pitcher_analyses.sort(key=lambda x: x.priority_score, reverse=True): a stable sort
SortByPriority(analyses) == SortByPriorityFrom(analyses, <<>>)

\* the PitcherAnalysis the matcher builds.  Its player carries the attributes a run
\* never reassigns; mlb_player_id, confirmed_start_date and potential_second_start of
\* the Player object are reassigned at every match and are read from all_pitchers
NewAnalysis(player, starter_info, potential_second) ==
    [player |-> [name |-> player.name,
                 yahoo_player_id |-> player.yahoo_player_id,
                 percent_owned |-> player.percent_owned,
                 source |-> player.source],
     confirmed_start_date |-> starter_info.date,
     is_monday_tuesday_start |-> TRUE,
     potential_second_start |-> potential_second,
     second_start_likelihood |-> IF potential_second THEN 8 ELSE 0,
     recommendation_score |-> RecommendationScore(player, potential_second),
     recommendation_reason |-> RecommendationReason(player, potential_second)]

\* a day filter that takes every start of the week
IsTargetStart_WholeWeek(starter_info, week) ==
    week.start_date <= starter_info.date /\ starter_info.date <= week.end_date

\* whether the loop of _analyze_matched_pitchers takes a starter: a Monday or Tuesday start
IsTargetStart(starter_info, week) ==
    starter_info.date \in {week.start_date, week.start_date + 1}

\* a count that takes every entry, whatever its source
CountSource_All(analyses, source) == Len(analyses)

\* len([p for p in pitcher_analyses if p.player.source == source])
CountSource(analyses, source) ==
    Cardinality({i \in 1..Len(analyses) : analyses[i].player.source = source})

\* a filter that also drops the entries whose ownership equals the threshold
FilterAnalyses_AboveThreshold(analyses, s) ==
    LET by_ownership ==
            IF s.ownership_threshold > 0
            THEN SelectSeq(analyses, LAMBDA a : a.player.percent_owned > s.ownership_threshold * 10)
            ELSE analyses
    IN  IF ~s.show_waiver_players
        THEN SelectSeq(by_ownership, LAMBDA a : a.player.source # "Waiver")
        ELSE by_ownership

\* analysis_tab._filter_analyses(analyses, settings)
FilterAnalyses(analyses, s) ==
    LET by_ownership ==
            IF s.ownership_threshold > 0
            THEN SelectSeq(analyses, LAMBDA a : a.player.percent_owned >= s.ownership_threshold * 10)
            ELSE analyses
    IN  IF ~s.show_waiver_players
        THEN SelectSeq(by_ownership, LAMBDA a : a.player.source # "Waiver")
        ELSE by_ownership

(***************************************************************************)
(* Inputs of a run.                                                        *)
(***************************************************************************)
SeqsUpTo(S, n) == UNION {[1..k -> S] : k \in 0..n}

\* records of a Yahoo roster or waiver response: two pitchers whose names normalize
\* alike, a pitcher without a name, a position player, and a record whose ownership
\* fails the validation of Player
RawPlayers ==
    {[name |-> <<"e">>, player_id |-> 1, eligible_positions |-> <<"SP">>, percent_owned |-> 400],
     [name |-> <<"e_acute">>, player_id |-> 2, eligible_positions |-> <<"RP", "P">>, percent_owned |-> 605],
     [name |-> <<>>, player_id |-> 3, eligible_positions |-> <<"SP">>, percent_owned |-> 900],
     [name |-> <<"e">>, player_id |-> 4, eligible_positions |-> <<"1B">>, percent_owned |-> 400],
     [name |-> <<"E", "1">>, player_id |-> 5, eligible_positions |-> <<"SP">>, percent_owned |-> 1500]}

YahooResponses ==
    {[failed |-> TRUE, data |-> <<>>]}
    \cup {[failed |-> FALSE, data |-> d] : d \in SeqsUpTo(RawPlayers, MaxPool)}

\* probable-pitcher entries of the MLB response, dated by their offset from the Monday
\* of the week
RawStarts ==
    {[offset |-> 0, id |-> 101, fullName |-> <<"E">>, team_id |-> 1],
     [offset |-> 1, id |-> 102, fullName |-> <<"e">>, team_id |-> 2],
     [offset |-> 2, id |-> 103, fullName |-> <<"e">>, team_id |-> 1],
     [offset |-> 0, id |-> 104, fullName |-> <<".">>, team_id |-> 1],
     [offset |-> 1, id |-> 101, fullName |-> <<"E">>, team_id |-> 1]}

StartEntry(raw, monday) ==
    [date |-> IsoFormat(monday + raw.offset), id |-> raw.id,
     fullName |-> raw.fullName, team_id |-> raw.team_id]

StarterResponses(monday) ==
    {[failed |-> TRUE, data |-> <<>>]}
    \cup {[failed |-> FALSE, data |-> [i \in 1..Len(d) |-> StartEntry(d[i], monday)]] :
             d \in SeqsUpTo(RawStarts, MaxStarts)}

\* MLB team ids of the model
Teams == {1, 2}

SettingsChoices == [ownership_threshold : {0, 50, 85}, show_waiver_players : BOOLEAN]

DefaultSettings == [ownership_threshold |-> 0, show_waiver_players |-> TRUE]

\* a schedule response that lists the days lo..hi in ascending order, each with a game
RECURSIVE DailyGames(_, _)
DailyGames(lo, hi) ==
    IF lo > hi THEN <<>>
    ELSE <<[date |-> IsoFormat(lo), games |-> TRUE]>> \o DailyGames(lo + 1, hi)

\* the days a run is started on: Wednesday 2024-01-03, and Wednesday 2026-12-23 whose
\* next Monday lies in ISO week 53
RunDays == {2, 1087}

(***************************************************************************)
(* One run of analysis_tab._run_analysis.                                  *)
(***************************************************************************)
\* the state before a run started on one of the given days
InitOn(days) ==
    /\ pc = "start"
    /\ today \in days
    /\ fantasy_week = NoValue
    /\ next_week = <<>>
    /\ error = "none"
    /\ waiver_pitchers = <<>>
    /\ my_team_pitchers = <<>>
    /\ all_pitchers = <<>>
    /\ confirmed_starters = <<>>
    /\ starter_index = 0
    /\ pitcher_analyses = <<>>
    /\ settings = DefaultSettings
    /\ analysis_results = NoValue
    /\ team_schedule_cache = {}
    /\ mlb_games = LET monday == today + DaysUntilNextMonday(today)
                   IN  [t \in Teams |-> IF t = 1 THEN DailyGames(monday, monday + 11) ELSE <<>>]
    /\ mlb_up \in BOOLEAN
    /\ upstream_calls = 0
    /\ first_start = -1
    /\ second_start = <<>>
    /\ svc_second_start = <<>>
    /\ failed_fetches = {}
    /\ schedule_log = <<>>
    /\ LibIdle

Init == InitOn(RunDays) /\ upstream_answers = NoAnswers

\* an except clause that lets the exception through as it is
WrapException_Reraise(raised) == raised

\* analyze_next_fantasy_week, lines 89-90: except Exception as e: raise AnalysisError
WrapException(raised) == "AnalysisError"

\* analyze_next_fantasy_week, line 63: a ValidationError of FantasyWeek leaves the try
\* block as AnalysisError
CalculateNextFantasyWeek ==
    /\ pc = "start"
    /\ LET week == CalculateNextFantasyWeekValue(today)
       IN  IF IsRaised(week)
           THEN /\ pc' = "raised"
                /\ error' = WrapException(week.raised)
                /\ UNCHANGED fantasy_week
           ELSE /\ pc' = "week"
                /\ fantasy_week' = week
                /\ UNCHANGED error
    /\ UNCHANGED <<lib_vars, upstream_answers>>
    /\ UNCHANGED <<today, next_week, waiver_pitchers, my_team_pitchers, all_pitchers,
                   confirmed_starters, starter_index, pitcher_analyses, settings, analysis_results,
                   team_schedule_cache, mlb_games, mlb_up, upstream_calls, first_start,
                   second_start, svc_second_start, failed_fetches,
                   schedule_log>>

\* analyze_next_fantasy_week, line 66
GetWaiverPitchers ==
    /\ pc = "week"
    /\ \E response \in AnswersTo("waiver", YahooResponses) :
           /\ waiver_pitchers' = PitchersOrEmpty(response, "Waiver")
           /\ failed_fetches' = IF PitchersFailed(response, "Waiver")
                                 THEN failed_fetches \cup {"waiver"} ELSE failed_fetches
    /\ pc' = "waiver"
    /\ UNCHANGED <<lib_vars, upstream_answers>>
    /\ UNCHANGED <<today, fantasy_week, next_week, error, my_team_pitchers, all_pitchers,
                   confirmed_starters, starter_index, pitcher_analyses, settings, analysis_results,
                   team_schedule_cache, mlb_games, mlb_up, upstream_calls, first_start,
                   second_start, svc_second_start,
                   schedule_log>>

\* analyze_next_fantasy_week, lines 67-70
GetMyTeamPitchers ==
    /\ pc = "waiver"
    /\ \E response \in AnswersTo("roster", YahooResponses) :
           \* Yahoo lists a player on the roster or among the free agents, never both
           /\ \A i \in 1..Len(response.data) : \A j \in 1..Len(waiver_pitchers) :
                  response.data[i].player_id # waiver_pitchers[j].yahoo_player_id
           /\ my_team_pitchers' = PitchersOrEmpty(response, "My Team")
           /\ all_pitchers' = CombinePitcherData(waiver_pitchers, my_team_pitchers')
           /\ failed_fetches' = IF PitchersFailed(response, "My Team")
                                 THEN failed_fetches \cup {"roster"} ELSE failed_fetches
    /\ pc' = "combined"
    /\ UNCHANGED <<lib_vars, upstream_answers>>
    /\ UNCHANGED <<today, fantasy_week, next_week, error, waiver_pitchers,
                   confirmed_starters, starter_index, pitcher_analyses, settings, analysis_results,
                   team_schedule_cache, mlb_games, mlb_up, upstream_calls, first_start,
                   second_start, svc_second_start,
                   schedule_log>>

\* analyze_next_fantasy_week, line 73
GetConfirmedStarters ==
    /\ pc = "combined"
    /\ \E response \in AnswersTo("starters", StarterResponses(fantasy_week.start_date)) :
           /\ confirmed_starters' = GetConfirmedProbableStarters(response, fantasy_week)
           /\ failed_fetches' = IF response.failed
                                 THEN failed_fetches \cup {"starters"} ELSE failed_fetches
    /\ starter_index' = 1
    /\ pc' = "matching"
    /\ UNCHANGED <<lib_vars, upstream_answers>>
    /\ UNCHANGED <<today, fantasy_week, next_week, error, waiver_pitchers, my_team_pitchers,
                   all_pitchers, pitcher_analyses, settings, analysis_results,
                   team_schedule_cache, mlb_games, mlb_up, upstream_calls, first_start,
                   second_start, svc_second_start,
                   schedule_log>>

\* _analyze_matched_pitchers, lines 269-302: one pass of the loop over confirmed_starters
MatchStarter ==
    /\ pc = "matching"
    /\ starter_index <= Len(confirmed_starters)
    /\ LET starter_info == confirmed_starters[starter_index]
           m == FindMatchingPlayer(all_pitchers, starter_info.name)
       IN  IF ~IsTargetStart(starter_info, fantasy_week) \/ m = 0
           THEN UNCHANGED <<all_pitchers, pitcher_analyses, team_schedule_cache, upstream_calls>>
           ELSE LET chk == CheckPotentialSecondStart(team_schedule_cache, upstream_calls,
                               mlb_games, mlb_up, starter_info.team_id, starter_info.date,
                               fantasy_week.end_date)
                    matched_player == [all_pitchers[m] EXCEPT
                                          !.mlb_player_id = starter_info.pid,
                                          !.confirmed_start_date = starter_info.date,
                                          !.potential_second_start = chk.result]
                IN  /\ all_pitchers' = [all_pitchers EXCEPT ![m] = matched_player]
                    /\ pitcher_analyses' = Append(pitcher_analyses,
                           NewAnalysis(matched_player, starter_info, chk.result))
                    /\ team_schedule_cache' = chk.cache
                    /\ upstream_calls' = chk.calls
    /\ starter_index' = starter_index + 1
    /\ UNCHANGED <<lib_vars, upstream_answers>>
    /\ UNCHANGED <<pc, today, fantasy_week, next_week, error, waiver_pitchers,
                   my_team_pitchers, confirmed_starters, settings, analysis_results,
                   mlb_games, mlb_up, first_start, second_start, svc_second_start, failed_fetches,
                   schedule_log>>

\* _analyze_matched_pitchers, lines 304-306, and analyze_next_fantasy_week, lines 80-87:
\* rank the analyses, fill in the counts of the week, return
RankAndReturn ==
    /\ pc = "matching"
    /\ starter_index > Len(confirmed_starters)
    /\ pitcher_analyses' = SortByPriority(pitcher_analyses)
    /\ fantasy_week' = [fantasy_week EXCEPT
           !.total_pitchers_analyzed = Len(pitcher_analyses'),
           !.my_team_pitchers = CountSource(pitcher_analyses', "My Team"),
           !.waiver_pitchers = CountSource(pitcher_analyses', "Waiver"),
           !.analysis_completed = TRUE]
    /\ pc' = "returned"
    /\ UNCHANGED <<lib_vars, upstream_answers>>
    /\ UNCHANGED <<today, next_week, error, waiver_pitchers, my_team_pitchers, all_pitchers,
                   confirmed_starters, starter_index, settings, analysis_results,
                   team_schedule_cache, mlb_games, mlb_up, upstream_calls, first_start,
                   second_start, svc_second_start, failed_fetches,
                   schedule_log>>

\* _run_analysis, lines 80-89: filter the returned analyses and store the results
FilterAndStore ==
    /\ pc = "returned"
    /\ \E s \in SettingsChoices :
           /\ settings' = s
           /\ analysis_results' = [fantasy_week |-> fantasy_week,
                                   pitcher_analyses |-> FilterAnalyses(pitcher_analyses, s)]
    /\ pc' = "stored"
    /\ UNCHANGED <<lib_vars, upstream_answers>>
    /\ UNCHANGED <<today, fantasy_week, next_week, error, waiver_pitchers, my_team_pitchers,
                   all_pitchers, confirmed_starters, starter_index, pitcher_analyses,
                   team_schedule_cache, mlb_games, mlb_up, upstream_calls, first_start,
                   second_start, svc_second_start, failed_fetches,
                   schedule_log>>

Next ==
    \/ CalculateNextFantasyWeek
    \/ GetWaiverPitchers
    \/ GetMyTeamPitchers
    \/ GetConfirmedStarters
    \/ MatchStarter
    \/ RankAndReturn
    \/ FilterAndStore

Spec == Init /\ [][Next]_vars

(***************************************************************************)
(* The week calculators on every date.                                     *)
(***************************************************************************)
InitWeek == InitOn(0..MaxToday) /\ upstream_answers = NoAnswers

\* date_utils.get_next_fantasy_week()
GetNextFantasyWeek ==
    /\ next_week = <<>>
    /\ next_week' = GetNextFantasyWeekDates(today)
    /\ UNCHANGED <<lib_vars, upstream_answers>>
    /\ UNCHANGED <<pc, today, fantasy_week, error, waiver_pitchers, my_team_pitchers,
                   all_pitchers, confirmed_starters, starter_index, pitcher_analyses,
                   settings, analysis_results, team_schedule_cache, mlb_games, mlb_up,
                   upstream_calls, first_start, second_start, svc_second_start, failed_fetches,
                   schedule_log>>

NextWeek ==
    \/ CalculateNextFantasyWeek
    \/ GetNextFantasyWeek

SpecWeek == InitWeek /\ [][NextWeek]_vars

(***************************************************************************)
(* The second-start checks on every schedule of one team.  The week is the *)
(* one after Wednesday 2024-01-03; the first start is its Monday or        *)
(* Tuesday; upstream lists any set of game days of the scan range, in      *)
(* ascending or descending order, with or without its days off.            *)
(***************************************************************************)
CheckToday == CHOOSE d \in RunDays : \A e \in RunDays : d <= e

CheckWeek == CalculateNextFantasyWeekValue(CheckToday)

CheckTeam == CHOOSE t \in Teams : \A u \in Teams : t <= u

RECURSIVE ListedDays(_, _, _, _)
\* the date entries of lo..hi in ascending order: a game day with games, a day off with
\* an empty game list when days off are listed
ListedDays(lo, hi, game_days, list_off_days) ==
    IF lo > hi THEN <<>>
    ELSE (IF lo \in game_days THEN <<[date |-> IsoFormat(lo), games |-> TRUE]>>
          ELSE IF list_off_days THEN <<[date |-> IsoFormat(lo), games |-> FALSE]>>
          ELSE <<>>)
         \o ListedDays(lo + 1, hi, game_days, list_off_days)

Reverse(s) == [i \in 1..Len(s) |-> s[Len(s) + 1 - i]]

InitSecond ==
    /\ pc = "check"
    /\ today = CheckToday
    /\ fantasy_week = CheckWeek
    /\ next_week = <<>>
    /\ error = "none"
    /\ waiver_pitchers = <<>>
    /\ my_team_pitchers = <<>>
    /\ all_pitchers = <<>>
    /\ confirmed_starters = <<>>
    /\ starter_index = 0
    /\ pitcher_analyses = <<>>
    /\ settings = DefaultSettings
    /\ analysis_results = NoValue
    /\ team_schedule_cache = {}
    /\ first_start \in {CheckWeek.start_date, CheckWeek.start_date + 1}
    /\ \E game_days \in SUBSET ((CheckWeek.start_date + 1)..(CheckWeek.end_date + 5)) :
       \E list_off_days \in BOOLEAN :
       \E descending \in BOOLEAN :
           LET listed == ListedDays(CheckWeek.start_date + 1, CheckWeek.end_date + 5,
                                    game_days, list_off_days)
           IN  mlb_games = [t \in {CheckTeam} |-> IF descending THEN Reverse(listed) ELSE listed]
    /\ mlb_up \in BOOLEAN
    /\ upstream_calls = 0
    /\ second_start = <<>>
    /\ svc_second_start = <<>>
    /\ failed_fetches = {}
    /\ schedule_log = <<>>
    /\ upstream_answers = NoAnswers
    /\ LibIdle

\* MLBStatsClient.check_potential_second_start(team_id, first_start_date, fantasy_week_end_date)
ClientSecondStart ==
    /\ pc = "check"
    /\ second_start = <<>>
    /\ LET chk == ClientCheckPotentialSecondStart(team_schedule_cache, upstream_calls,
                      mlb_games, mlb_up, CheckTeam, first_start, fantasy_week.end_date)
       IN  /\ second_start' = <<chk.result>>
           /\ team_schedule_cache' = chk.cache
           /\ upstream_calls' = chk.calls
    /\ UNCHANGED <<lib_vars, upstream_answers>>
    /\ UNCHANGED <<pc, today, fantasy_week, next_week, error, waiver_pitchers,
                   my_team_pitchers, all_pitchers, confirmed_starters, starter_index,
                   pitcher_analyses, settings, analysis_results, mlb_games, mlb_up,
                   first_start, svc_second_start, failed_fetches,
                   schedule_log>>

\* AnalysisService._check_potential_second_start(team_id, first_start_date, fantasy_week_end)
ServiceSecondStart ==
    /\ pc = "check"
    /\ svc_second_start = <<>>
    /\ LET chk == CheckPotentialSecondStart(team_schedule_cache, upstream_calls,
                      mlb_games, mlb_up, CheckTeam, first_start, fantasy_week.end_date)
       IN  /\ svc_second_start' = <<chk.result>>
           /\ team_schedule_cache' = chk.cache
           /\ upstream_calls' = chk.calls
    /\ UNCHANGED <<lib_vars, upstream_answers>>
    /\ UNCHANGED <<pc, today, fantasy_week, next_week, error, waiver_pitchers,
                   my_team_pitchers, all_pitchers, confirmed_starters, starter_index,
                   pitcher_analyses, settings, analysis_results, mlb_games, mlb_up,
                   first_start, second_start, failed_fetches,
                   schedule_log>>

NextSecond ==
    \/ ClientSecondStart
    \/ ServiceSecondStart

SpecSecond == InitSecond /\ [][NextSecond]_vars

(***************************************************************************)
(* The ranker, the counts and the post-filter on every list of matches:    *)
(* the run from the end of the matcher loop, entered with any list the     *)
(* matcher can hand over for any outcome of the second-start checks.       *)
(***************************************************************************)
\* ownership percentages, in tenths, around the thresholds of the rationale
RankOwnerships == {0, 499, 500, 800, 801, 1000}

\* what the loop can hand NewAnalysis for one match: ownership, source and the outcome
\* of the second-start check
RankChoices == RankOwnerships \X {"My Team", "Waiver"} \X BOOLEAN

\* the match appended for the candidate with Yahoo id i
RankEntry(i, choice) ==
    NewAnalysis([name |-> <<"e">>, yahoo_player_id |-> i, percent_owned |-> choice[1],
                 source |-> choice[2]],
                [date |-> CheckWeek.start_date], choice[3])

\* the lists of k matches, the i-th of candidate i
RankLists(k) ==
    {[i \in 1..k |-> RankEntry(i, choices[i])] : choices \in [1..k -> RankChoices]}

InitRank ==
    /\ pc = "matching"
    /\ today = CheckToday
    /\ fantasy_week = CheckWeek
    /\ next_week = <<>>
    /\ error = "none"
    /\ waiver_pitchers = <<>>
    /\ my_team_pitchers = <<>>
    /\ all_pitchers = <<>>
    /\ confirmed_starters = <<>>
    /\ starter_index = 1
    /\ \E k \in 0..MaxRank : pitcher_analyses \in RankLists(k)
    /\ settings = DefaultSettings
    /\ analysis_results = NoValue
    /\ team_schedule_cache = {}
    /\ mlb_games = [t \in Teams |-> <<>>]
    /\ mlb_up = TRUE
    /\ upstream_calls = 0
    /\ first_start = -1
    /\ second_start = <<>>
    /\ svc_second_start = <<>>
    /\ failed_fetches = {}
    /\ schedule_log = <<>>
    /\ upstream_answers = NoAnswers
    /\ LibIdle

NextRank ==
    \/ RankAndReturn
    \/ FilterAndStore

SpecRank == InitRank /\ [][NextRank]_vars

(***************************************************************************)
(* One MLBStatsClient and its caller: get_team_schedule with date          *)
(* arguments and clear_cache, in any order, against an upstream whose      *)
(* answer can differ from one call to the next.                            *)
(***************************************************************************)
\* the scan ranges asked for: start and end one day apart each
CacheStarts == {CheckWeek.start_date + 1, CheckWeek.start_date + 2}

CacheEnds == {CheckWeek.end_date + 4, CheckWeek.end_date + 5}

\* upstream schedules: a game every day, or every team playing every other day with the
\* days off listed and the dates in descending order
CacheSchedules ==
    {[t \in Teams |-> DailyGames(CheckWeek.start_date, CheckWeek.end_date + 5)],
     [t \in Teams |-> Reverse(ListedDays(CheckWeek.start_date, CheckWeek.end_date + 5,
                          {d \in CheckWeek.start_date..(CheckWeek.end_date + 5) : (d + t) % 2 = 0},
                          TRUE))]}

\* what upstream is at the time of a call: answering with one of the schedules, or failing
UpstreamChoices ==
    {[up |-> TRUE, games |-> g] : g \in CacheSchedules}
    \cup {[up |-> FALSE, games |-> [t \in Teams |-> <<>>]]}

InitCache ==
    /\ pc = "client"
    /\ today = CheckToday
    /\ fantasy_week = CheckWeek
    /\ next_week = <<>>
    /\ error = "none"
    /\ waiver_pitchers = <<>>
    /\ my_team_pitchers = <<>>
    /\ all_pitchers = <<>>
    /\ confirmed_starters = <<>>
    /\ starter_index = 0
    /\ pitcher_analyses = <<>>
    /\ settings = DefaultSettings
    /\ analysis_results = NoValue
    /\ team_schedule_cache = {}
    /\ mlb_games = [t \in Teams |-> <<>>]
    /\ mlb_up = TRUE
    /\ upstream_calls = 0
    /\ first_start = -1
    /\ second_start = <<>>
    /\ svc_second_start = <<>>
    /\ failed_fetches = {}
    /\ schedule_log = <<>>
    /\ upstream_answers = NoAnswers
    /\ LibIdle

\* MLBStatsClient.get_team_schedule(team_id, start_date, end_date), called with dates
CallGetTeamSchedule ==
    /\ pc = "client"
    /\ Len(schedule_log) < MaxCalls
    /\ \E team_id \in Teams : \E start_date \in CacheStarts : \E end_date \in CacheEnds :
       \E upstream \in UpstreamChoices :
           LET got == GetTeamSchedule(team_schedule_cache, upstream_calls, upstream.games,
                                      upstream.up, team_id, DateArg(start_date), DateArg(end_date))
           IN  /\ mlb_games' = upstream.games
               /\ mlb_up' = upstream.up
               /\ team_schedule_cache' = got.cache
               /\ upstream_calls' = got.calls
               /\ schedule_log' = Append(schedule_log,
                                     [op |-> "get_team_schedule", team_id |-> team_id,
                                      start_date |-> start_date, end_date |-> end_date,
                                      raised |-> got.raised, dates |-> got.dates,
                                      requests |-> got.calls - upstream_calls])
    /\ UNCHANGED <<lib_vars, upstream_answers>>
    /\ UNCHANGED <<pc, today, fantasy_week, next_week, error, waiver_pitchers,
                   my_team_pitchers, all_pitchers, confirmed_starters, starter_index,
                   pitcher_analyses, settings, analysis_results, first_start,
                   second_start, svc_second_start, failed_fetches>>

\* MLBStatsClient.clear_cache()
ClearCache ==
    /\ pc = "client"
    /\ Len(schedule_log) < MaxCalls
    /\ team_schedule_cache' = {}
    /\ schedule_log' = Append(schedule_log,
                          [op |-> "clear_cache", team_id |-> 0, start_date |-> 0,
                           end_date |-> 0, raised |-> "none", dates |-> <<>>, requests |-> 0])
    /\ UNCHANGED <<lib_vars, upstream_answers>>
    /\ UNCHANGED <<pc, today, fantasy_week, next_week, error, waiver_pitchers,
                   my_team_pitchers, all_pitchers, confirmed_starters, starter_index,
                   pitcher_analyses, settings, analysis_results, mlb_games, mlb_up,
                   upstream_calls, first_start, second_start, svc_second_start,
                   failed_fetches>>

NextCache ==
    \/ CallGetTeamSchedule
    \/ ClearCache

SpecCache == InitCache /\ [][NextCache]_vars

(***************************************************************************)
(* The helpers on their own.  The variables of the run stay as they are    *)
(* before a run.                                                           *)
(***************************************************************************)
run_vars == <<pc, today, fantasy_week, next_week, error, waiver_pitchers, my_team_pitchers,
              all_pitchers, confirmed_starters, starter_index, pitcher_analyses, settings,
              analysis_results, team_schedule_cache, mlb_games, mlb_up, upstream_calls,
              first_start, second_start, svc_second_start, failed_fetches, schedule_log,
              upstream_answers>>

\* no run is going on; pc names the helper in use
RunIdle(helper) ==
    /\ pc = helper
    /\ today = CheckToday
    /\ fantasy_week = NoValue
    /\ next_week = <<>>
    /\ error = "none"
    /\ waiver_pitchers = <<>>
    /\ my_team_pitchers = <<>>
    /\ all_pitchers = <<>>
    /\ confirmed_starters = <<>>
    /\ starter_index = 0
    /\ pitcher_analyses = <<>>
    /\ settings = DefaultSettings
    /\ analysis_results = NoValue
    /\ team_schedule_cache = {}
    /\ mlb_games = [t \in Teams |-> <<>>]
    /\ mlb_up = TRUE
    /\ upstream_calls = 0
    /\ first_start = -1
    /\ second_start = <<>>
    /\ svc_second_start = <<>>
    /\ failed_fetches = {}
    /\ schedule_log = <<>>
    /\ upstream_answers = NoAnswers

(***************************************************************************)
(* Runs against answers that upstream holds before the run starts: the     *)
(* probable-starters answer in one specification, the answers of both      *)
(* Yahoo fetches in the other.                                             *)
(***************************************************************************)
InitStarters ==
    /\ InitOn(RunDays)
    /\ \E response \in StarterResponses(today + DaysUntilNextMonday(today)) :
           upstream_answers = [NoAnswers EXCEPT !.starters = response]

SpecStarters == InitStarters /\ [][Next]_vars

\* the player ids of the records of a response
ResponseIds(response) == {response.data[i].player_id : i \in 1..Len(response.data)}

\* the probable-starters answer of the runs on fixed Yahoo answers: a Monday start of
\* pitcher 101 and a Tuesday start of pitcher 102
PoolStarters(monday) ==
    [failed |-> FALSE,
     data |-> <<StartEntry([offset |-> 0, id |-> 101, fullName |-> <<"E">>, team_id |-> 1], monday),
                StartEntry([offset |-> 1, id |-> 102, fullName |-> <<"e">>, team_id |-> 2], monday)>>]

InitPools ==
    /\ InitOn({CheckToday})
    /\ \E waiver \in YahooResponses, roster \in YahooResponses :
           \* Yahoo lists a player on the roster or among the free agents, never both
           /\ ResponseIds(waiver) \cap ResponseIds(roster) = {}
           /\ upstream_answers =
                  [waiver |-> waiver, roster |-> roster,
                   starters |-> PoolStarters(today + DaysUntilNextMonday(today))]

SpecPools == InitPools /\ [][Next]_vars

(***************************************************************************)
(* text_utils.slugify on every string of at most MaxLen characters and on  *)
(* None, applied to its argument and then to its own result.               *)
(***************************************************************************)
\* the strings of exactly n characters
StringsOfLen(n) == [1..n -> Chars]

InitSlug ==
    /\ RunIdle("slugify")
    /\ \/ \E n \in 0..MaxLen : text_in \in StringsOfLen(n)
       \/ text_in = NoneStr
    /\ text_out = <<>>
    /\ target_dates = <<>>
    /\ analysis_dates = <<>>
    /\ UnusedStore

\* slugify(value)
Slugify ==
    /\ pc = "slugify"
    /\ text_out = <<>>
    /\ text_out' = <<slugify(text_in)>>
    /\ UNCHANGED <<text_in, target_vars, store_vars>>
    /\ UNCHANGED run_vars

\* slugify(slugify(value))
SlugifyAgain ==
    /\ pc = "slugify"
    /\ Len(text_out) = 1
    /\ text_out' = Append(text_out, slugify(text_out[1]))
    /\ UNCHANGED <<text_in, target_vars, store_vars>>
    /\ UNCHANGED run_vars

NextSlug ==
    \/ Slugify
    \/ SlugifyAgain

SpecSlug == InitSlug /\ [][NextSlug]_vars

(***************************************************************************)
(* AnalysisService._combine_pitcher_data on every pair of lists of at most *)
(* MaxPool players, the same player in both lists included.                *)
(***************************************************************************)
\* the players a fetcher can build for its source
MergePlayers(source) ==
    {NewPlayer([name |-> n, player_id |-> i, percent_owned |-> o], source) :
         n \in {<<"e">>, <<"E">>}, i \in {1, 2}, o \in {0, 500}}

\* the lists of k players of one source
MergeLists(k, source) == [1..k -> MergePlayers(source)]

InitMerge ==
    /\ pc = "merge"
    /\ today = CheckToday
    /\ fantasy_week = CheckWeek
    /\ next_week = <<>>
    /\ error = "none"
    /\ \E k \in 0..MaxPool : waiver_pitchers \in MergeLists(k, "Waiver")
    /\ \E k \in 0..MaxPool : my_team_pitchers \in MergeLists(k, "My Team")
    /\ all_pitchers = <<>>
    /\ confirmed_starters = <<>>
    /\ starter_index = 0
    /\ pitcher_analyses = <<>>
    /\ settings = DefaultSettings
    /\ analysis_results = NoValue
    /\ team_schedule_cache = {}
    /\ mlb_games = [t \in Teams |-> <<>>]
    /\ mlb_up = TRUE
    /\ upstream_calls = 0
    /\ first_start = -1
    /\ second_start = <<>>
    /\ svc_second_start = <<>>
    /\ failed_fetches = {}
    /\ schedule_log = <<>>
    /\ upstream_answers = NoAnswers
    /\ LibIdle

\* all_pitchers = self._combine_pitcher_data(waiver_pitchers, my_team_pitchers)
CombinePitchers ==
    /\ pc = "merge"
    /\ all_pitchers' = CombinePitcherData(waiver_pitchers, my_team_pitchers)
    /\ pc' = "merged"
    /\ UNCHANGED <<lib_vars, upstream_answers>>
    /\ UNCHANGED <<today, fantasy_week, next_week, error, waiver_pitchers, my_team_pitchers,
                   confirmed_starters, starter_index, pitcher_analyses, settings,
                   analysis_results, team_schedule_cache, mlb_games, mlb_up, upstream_calls,
                   first_start, second_start, svc_second_start, failed_fetches, schedule_log>>

NextMerge ==
    \/ CombinePitchers

SpecMerge == InitMerge /\ [][NextMerge]_vars

(***************************************************************************)
(* The target dates of a fantasy week.                                     *)
(***************************************************************************)
\* date.strftime('%A')
DayName(d) ==
    <<"Monday", "Tuesday", "Wednesday", "Thursday", "Friday", "Saturday", "Sunday">>[Weekday(d) + 1]

\* date.replace(day=day): the date of that day of the same month, or ValueError when the
\* month has no such day
ReplaceDay(d, day) ==
    IF day < 1 \/ day > MonthLength(YearOf(d), MonthOf(d))
    THEN [raised |-> "ValueError", value |-> d]
    ELSE [raised |-> "none", value |-> MonthStart(YearOf(d), MonthOf(d)) + day - 1]

InList(x, list) == \E i \in 1..Len(list) : list[i] = x

RECURSIVE TargetDatesFrom(_, _, _)
\* the while loop of FantasyWeek.target_dates
TargetDatesFrom(week, current_date, dates) ==
    IF current_date > week.end_date THEN [raised |-> "none", dates |-> dates]
    ELSE LET kept == IF InList(DayName(current_date), week.target_days)
                     THEN Append(dates, current_date) ELSE dates
             next == ReplaceDay(current_date, DayOf(current_date) + 1)
         IN  IF next.raised # "none" THEN [raised |-> next.raised, dates |-> <<>>]
             ELSE TargetDatesFrom(week, next.value, kept)

\* FantasyWeek.target_dates
TargetDates(week) == TargetDatesFrom(week, week.start_date, <<>>)

RECURSIVE TargetAnalysisDatesFrom(_, _, _)
\* the for loop of get_target_analysis_dates, from i on
TargetAnalysisDatesFrom(week_start, target_days, i) ==
    IF i >= 7 THEN <<>>
    ELSE LET current_date == week_start + i
         IN  (IF InList(DayName(current_date), target_days) THEN <<current_date>> ELSE <<>>)
             \o TargetAnalysisDatesFrom(week_start, target_days, i + 1)

\* date_utils.get_target_analysis_dates(week_start, target_days)
GetTargetAnalysisDates(week_start, target_days) ==
    TargetAnalysisDatesFrom(week_start, target_days, 0)

\* the target_days a FantasyWeek is given: the default and others
TargetDayChoices ==
    {<<"Monday", "Tuesday">>, <<"Sunday">>, <<"Wednesday", "Monday">>, <<>>}

(***************************************************************************)
(* FantasyWeek.target_dates and get_target_analysis_dates on the window of *)
(* every week the calculator can build, for every choice of target days.   *)
(***************************************************************************)
InitTarget ==
    /\ pc = "target"
    /\ today \in 0..MaxToday
    /\ \E target_days \in TargetDayChoices :
           LET week == CalculateNextFantasyWeekValue(today)
           IN  /\ ~IsRaised(week)
               /\ fantasy_week = [week EXCEPT !.target_days = target_days]
    /\ next_week = <<>>
    /\ error = "none"
    /\ waiver_pitchers = <<>>
    /\ my_team_pitchers = <<>>
    /\ all_pitchers = <<>>
    /\ confirmed_starters = <<>>
    /\ starter_index = 0
    /\ pitcher_analyses = <<>>
    /\ settings = DefaultSettings
    /\ analysis_results = NoValue
    /\ team_schedule_cache = {}
    /\ mlb_games = [t \in Teams |-> <<>>]
    /\ mlb_up = TRUE
    /\ upstream_calls = 0
    /\ first_start = -1
    /\ second_start = <<>>
    /\ svc_second_start = <<>>
    /\ failed_fetches = {}
    /\ schedule_log = <<>>
    /\ upstream_answers = NoAnswers
    /\ LibIdle

\* fantasy_week.target_dates
ReadTargetDates ==
    /\ pc = "target"
    /\ target_dates = <<>>
    /\ target_dates' = <<TargetDates(fantasy_week)>>
    /\ UNCHANGED <<text_in, text_out, analysis_dates, store_vars>>
    /\ UNCHANGED run_vars

\* get_target_analysis_dates(fantasy_week.start_date, fantasy_week.target_days)
CallGetTargetAnalysisDates ==
    /\ pc = "target"
    /\ analysis_dates = <<>>
    /\ analysis_dates' = <<GetTargetAnalysisDates(fantasy_week.start_date,
                                                  fantasy_week.target_days)>>
    /\ UNCHANGED <<text_in, text_out, target_dates, store_vars>>
    /\ UNCHANGED run_vars

NextTarget ==
    \/ ReadTargetDates
    \/ CallGetTargetAnalysisDates

SpecTarget == InitTarget /\ [][NextTarget]_vars

(***************************************************************************)
(* CacheService: a memory cache per instance and the cache_data dict of    *)
(* the Streamlit session state, which all instances share.  A dict is a    *)
(* function from the keys to <<entry>>, or <<>> for a key it does not hold. *)
(***************************************************************************)
DEFAULT_CACHE_TTL_SECONDS == 3600

\* the CacheService objects that can be built in one session
Instances == {1, 2}

\* the values callers store
CacheValues == {1, 2}

\* the ttl argument of set: None (<<>>) or a number of seconds
TtlChoices == {<<>>, <<0>>, <<1>>}

\* the instants of the calls: the first seconds, and the seconds around the end of the
\* default time-to-live of an entry set at 0
Instants ==
    {0, 1, 2, DEFAULT_CACHE_TTL_SECONDS, DEFAULT_CACHE_TTL_SECONDS + 1}

EmptyDict == [key \in Keys |-> <<>>]

\* CacheService._create_cache_entry(value, ttl) at time now: ttl or self.default_ttl
CreateCacheEntry(value, ttl, now, default_ttl) ==
    LET effective == IF ttl = <<>> \/ ttl[1] = 0 THEN default_ttl ELSE ttl[1]
    IN  [value |-> value, timestamp |-> now, ttl |-> effective, expires_at |-> now + effective]

\* CacheService._is_expired(entry) at time now
IsExpired(entry, now) == now > entry.expires_at

\* CacheService.get(key) at time now: whether a value was found (the default is returned
\* otherwise), the value, and both dicts afterwards
CacheGetValue(memory, session, key, now) ==
    LET memory_hit == memory[key] # <<>> /\ ~IsExpired(memory[key][1], now)
        memory_after == IF memory[key] # <<>> /\ ~memory_hit
                        THEN [memory EXCEPT ![key] = <<>>] ELSE memory
    IN  IF memory_hit
        THEN [found |-> TRUE, value |-> memory[key][1].value,
              memory |-> memory, session |-> session]
        ELSE IF session[key] # <<>>
        THEN IF ~IsExpired(session[key][1], now)
             THEN [found |-> TRUE, value |-> session[key][1].value,
                   memory |-> [memory_after EXCEPT ![key] = session[key]],
                   session |-> session]
             ELSE [found |-> FALSE, value |-> 0, memory |-> memory_after,
                   session |-> [session EXCEPT ![key] = <<>>]]
        ELSE [found |-> FALSE, value |-> 0, memory |-> memory_after, session |-> session]

(***************************************************************************)
(* The cache services of one session: instances are built, and get, set,   *)
(* delete and clear are called on any of them in any order while the       *)
(* clock advances.                                                         *)
(***************************************************************************)
InitStore ==
    /\ RunIdle("cache")
    /\ text_in = <<>>
    /\ text_out = <<>>
    /\ target_dates = <<>>
    /\ analysis_dates = <<>>
    /\ UnusedStore

\* CacheService(): a new instance with an empty memory cache
NewCacheService ==
    /\ pc = "cache"
    /\ Len(memory_cache) < Cardinality(Instances)
    /\ memory_cache' = Append(memory_cache, EmptyDict)
    /\ UNCHANGED <<clock, session_cache, last_write, last_get, cache_ops>>
    /\ UNCHANGED <<text_in, text_out, target_vars>>
    /\ UNCHANGED run_vars

\* CacheService.set(key, value, ttl)
CallSetOnCache ==
    /\ pc = "cache"
    /\ cache_ops < MaxOps
    /\ \E inst \in 1..Len(memory_cache) : \E key \in Keys : \E value \in CacheValues :
       \E ttl \in TtlChoices :
           LET entry == CreateCacheEntry(value, ttl, clock, DEFAULT_CACHE_TTL_SECONDS)
           IN  /\ memory_cache' = [memory_cache EXCEPT ![inst][key] = <<entry>>]
               /\ session_cache' = [session_cache EXCEPT ![key] = <<entry>>]
               /\ last_write' = [last_write EXCEPT
                                    ![key] = [op |-> "set", value |-> value, ttl |-> ttl,
                                              at |-> clock]]
    /\ last_get' = <<>>
    /\ cache_ops' = cache_ops + 1
    /\ UNCHANGED clock
    /\ UNCHANGED <<text_in, text_out, target_vars>>
    /\ UNCHANGED run_vars

\* CacheService.get(key)
CallGetOnCache ==
    /\ pc = "cache"
    /\ cache_ops < MaxOps
    /\ \E inst \in 1..Len(memory_cache) : \E key \in Keys :
           LET got == CacheGetValue(memory_cache[inst], session_cache, key, clock)
           IN  /\ memory_cache' = [memory_cache EXCEPT ![inst] = got.memory]
               /\ session_cache' = got.session
               /\ last_get' = <<[inst |-> inst, key |-> key, found |-> got.found,
                                 value |-> got.value, at |-> clock,
                                 memory_before |-> memory_cache[inst][key],
                                 session_before |-> session_cache[key]]>>
    /\ cache_ops' = cache_ops + 1
    /\ UNCHANGED <<clock, last_write>>
    /\ UNCHANGED <<text_in, text_out, target_vars>>
    /\ UNCHANGED run_vars

\* CacheService.delete(key)
CallDeleteOnCache ==
    /\ pc = "cache"
    /\ cache_ops < MaxOps
    /\ \E inst \in 1..Len(memory_cache) : \E key \in Keys :
           /\ memory_cache' = [memory_cache EXCEPT ![inst][key] = <<>>]
           /\ session_cache' = [session_cache EXCEPT ![key] = <<>>]
           /\ last_write' = [last_write EXCEPT
                                ![key] = [op |-> "delete", value |-> 0, ttl |-> <<>>,
                                          at |-> clock]]
    /\ last_get' = <<>>
    /\ cache_ops' = cache_ops + 1
    /\ UNCHANGED clock
    /\ UNCHANGED <<text_in, text_out, target_vars>>
    /\ UNCHANGED run_vars

\* CacheService.clear(), without a pattern
CallClearOnCache ==
    /\ pc = "cache"
    /\ cache_ops < MaxOps
    /\ \E inst \in 1..Len(memory_cache) :
           memory_cache' = [memory_cache EXCEPT ![inst] = EmptyDict]
    /\ session_cache' = EmptyDict
    /\ last_write' = [key \in Keys |-> [op |-> "clear", value |-> 0, ttl |-> <<>>, at |-> clock]]
    /\ last_get' = <<>>
    /\ cache_ops' = cache_ops + 1
    /\ UNCHANGED clock
    /\ UNCHANGED <<text_in, text_out, target_vars>>
    /\ UNCHANGED run_vars

\* time passes between two calls, up to a later one of the instants
TimePasses ==
    /\ pc = "cache"
    /\ \E instant \in Instants :
           /\ instant > clock
           /\ clock' = instant
    /\ last_get' = <<>>
    /\ UNCHANGED <<session_cache, memory_cache, last_write, cache_ops>>
    /\ UNCHANGED <<text_in, text_out, target_vars>>
    /\ UNCHANGED run_vars

NextStore ==
    \/ NewCacheService
    \/ CallSetOnCache
    \/ CallGetOnCache
    \/ CallDeleteOnCache
    \/ CallClearOnCache
    \/ TimePasses

SpecStore == InitStore /\ [][NextStore]_vars

(***************************************************************************)
(* Properties.                                                             *)
(***************************************************************************)
IsWindow(week) == "start_date" \in DOMAIN week

\* what the specification asks of a window computed on day d
WindowShape(start, end, d) ==
    /\ start > d
    /\ start <= d + 7
    /\ start % 7 = 0
    /\ end = start + 6
    /\ (d % 7 = 0 => start = d + 7)

\* C1: for every date today, both week calculators return a window whose start is
\* strictly after today, at most 7 days after it and a Monday, whose end is start + 6
\* days, and whose start is today + 7 days when today is a Monday.
C1_NextWindowForEveryDate ==
    /\ pc # "start" =>
           /\ IsWindow(fantasy_week)
           /\ WindowShape(fantasy_week.start_date, fantasy_week.end_date, today)
    /\ next_week # <<>> => WindowShape(next_week[1], next_week[2], today)

\* the half of C1 that holds: date_utils.get_next_fantasy_week on every date, and
\* every window the service does build
NextWindowWhenBuilt ==
    /\ IsWindow(fantasy_week) =>
           WindowShape(fantasy_week.start_date, fantasy_week.end_date, today)
    /\ next_week # <<>> => WindowShape(next_week[1], next_week[2], today)

\* the game days upstream holds for a team within lo..hi, none when upstream is down
GameDays(team_id, lo, hi) ==
    IF mlb_up /\ team_id \in DOMAIN mlb_games
    THEN {d \in lo..hi : \E i \in 1..Len(mlb_games[team_id]) :
                             /\ mlb_games[team_id][i].games
                             /\ ParseDate(mlb_games[team_id][i].date) = d}
    ELSE {}

\* at least 5 game days in the scan range of a first start, the 5th of them no later
\* than the end of the week
FifthGameByWeekEnd(team_id, first_start_date, week_end) ==
    LET days == GameDays(team_id, first_start_date + 1, week_end + 5)
    IN  \E d5 \in days : d5 <= week_end /\ Cardinality({d \in days : d < d5}) = 4

\* C2: a second-start check returns true if and only if the schedule provider has at
\* least 5 game dates in firstStartDate + 1 .. windowEnd + 5 and the 5th of them is on
\* or before windowEnd; this holds for AnalysisService._check_potential_second_start
\* and for MLBStatsClient.check_potential_second_start.
C2_SecondStartIffFifthGameInWindow ==
    /\ second_start # <<>> =>
           second_start[1] = FifthGameByWeekEnd(CheckTeam, first_start, fantasy_week.end_date)
    /\ svc_second_start # <<>> =>
           svc_second_start[1] = FifthGameByWeekEnd(CheckTeam, first_start, fantasy_week.end_date)

\* the half of C2 that holds: the check of the MLB client
ClientSecondStartIffFifthGame ==
    second_start # <<>> =>
        second_start[1] = FifthGameByWeekEnd(CheckTeam, first_start, fantasy_week.end_date)

\* what AnalysisService._check_potential_second_start does instead: it answers False
ServiceSecondStartAlwaysFalse == svc_second_start # <<>> => svc_second_start[1] = FALSE

\* the scenario of C3: today is a Wednesday, the one confirmed start is on the Monday of
\* the week for a team whose 5th upcoming game lies in the week, and the pool is one
\* roster candidate of the same normalized name with ownership 40
ScenarioRosterMondayStart ==
    /\ today % 7 = 2
    /\ Len(confirmed_starters) = 1
    /\ confirmed_starters[1].date = fantasy_week.start_date
    /\ FifthGameByWeekEnd(confirmed_starters[1].team_id, confirmed_starters[1].date,
                          fantasy_week.end_date)
    /\ Len(all_pitchers) = 1
    /\ all_pitchers[1].source = "My Team"
    /\ all_pitchers[1].percent_owned = 400
    /\ slugify(all_pitchers[1].name) = slugify(confirmed_starters[1].name)

\* C3: in the scenario the run yields exactly one MatchedPitcher, with
\* potential_second_start true, rationale "Already on your team; Likely second start;
\* Low ownership" and priority 1640.
C3_ScenarioYieldsSecondStart ==
    (pc = "returned" /\ ScenarioRosterMondayStart) =>
        /\ Len(pitcher_analyses) = 1
        /\ pitcher_analyses[1].potential_second_start
        /\ pitcher_analyses[1].recommendation_reason
               = "Already on your team; Likely second start; Low ownership"
        /\ PriorityScore(pitcher_analyses[1]) = 1640

\* what the run yields in the scenario of C3
ScenarioYieldsNoSecondStart ==
    (pc = "returned" /\ ScenarioRosterMondayStart) =>
        /\ Len(pitcher_analyses) = 1
        /\ ~pitcher_analyses[1].potential_second_start
        /\ pitcher_analyses[1].recommendation_reason = "Already on your team; Low ownership"
        /\ PriorityScore(pitcher_analyses[1]) = 1140

\* the attributes of a Player that a run never reassigns
Attributes(player) ==
    [name |-> player.name, yahoo_player_id |-> player.yahoo_player_id,
     percent_owned |-> player.percent_owned, source |-> player.source]

\* C4: the merged pool lists the roster (My Team) candidates before the waiver
\* candidates and the matcher takes the earliest candidate of a normalized name, so a
\* match whose normalized name a roster candidate bears is a match of a roster candidate.
C4_RosterCandidateMatchedFirst ==
    /\ pc = "combined" => all_pitchers = my_team_pitchers \o waiver_pitchers
    /\ \A a \in 1..Len(pitcher_analyses) :
           (\E k \in 1..Len(all_pitchers) :
                /\ all_pitchers[k].source = "My Team"
                /\ slugify(all_pitchers[k].name) = slugify(pitcher_analyses[a].player.name))
           => pitcher_analyses[a].player.source = "My Team"

\* C5: no MatchedPitcher pairs a confirmed start and a candidate whose names both
\* normalize to the empty string.
C5_EmptyNamesNeverMatch ==
    \A a \in 1..Len(pitcher_analyses) : slugify(pitcher_analyses[a].player.name) # <<>>

\* C6: once the post-filter is applied, the total, roster and waiver counts of the
\* stored report are those of the filtered list.
C6_CountsOfFilteredList ==
    pc = "stored" =>
        /\ analysis_results.fantasy_week.total_pitchers_analyzed
               = Len(analysis_results.pitcher_analyses)
        /\ analysis_results.fantasy_week.my_team_pitchers
               = CountSource(analysis_results.pitcher_analyses, "My Team")
        /\ analysis_results.fantasy_week.waiver_pitchers
               = CountSource(analysis_results.pitcher_analyses, "Waiver")

\* C7: for every date today the week calculator succeeds, and the week index of its
\* window is a positive integer, the ISO week number of the window's start.
C7_WeekIndexForEveryDate ==
    pc # "start" =>
        /\ pc = "week"
        /\ error = "none"
        /\ IsWindow(fantasy_week)
        /\ fantasy_week.week_number >= 1
        /\ fantasy_week.week_number = IsoWeek(fantasy_week.start_date)

OnMondayOrTuesday(i) ==
    confirmed_starters[i].date \in {fantasy_week.start_date, fantasy_week.start_date + 1}

HasCandidate(i) ==
    \E k \in 1..Len(all_pitchers) :
        slugify(all_pitchers[k].name) = slugify(confirmed_starters[i].name)

\* C8: every MatchedPitcher pairs a confirmed start with a candidate of the pool whose
\* normalized name is character-equal to the normalized display name of the start, and
\* a confirmed start with no such candidate yields no MatchedPitcher and no error.
C8_MatchesPairEqualNormalizedNames ==
    /\ \A a \in 1..Len(pitcher_analyses) :
           \E i \in 1..Len(confirmed_starters) : \E k \in 1..Len(all_pitchers) :
               /\ pitcher_analyses[a].confirmed_start_date = confirmed_starters[i].date
               /\ pitcher_analyses[a].player = Attributes(all_pitchers[k])
               /\ slugify(all_pitchers[k].name) = slugify(confirmed_starters[i].name)
    /\ pc \in {"returned", "stored"} =>
           /\ error = "none"
           /\ Len(pitcher_analyses)
                  = Cardinality({i \in 1..Len(confirmed_starters) :
                                    OnMondayOrTuesday(i) /\ HasCandidate(i)})

\* a run that dropped a Monday or Tuesday start without a candidate and matched another
C8_Witness ==
    /\ pc = "returned"
    /\ \E i \in 1..Len(confirmed_starters) : OnMondayOrTuesday(i) /\ ~HasCandidate(i)
    /\ all_pitchers # <<>>
    /\ Len(pitcher_analyses) = 1

\* C9: the confirmed start date of every MatchedPitcher is the Monday or the Tuesday of
\* the window, and a confirmed start on another day of the window yields none, also
\* when a candidate of its normalized name exists.
C9_OnlyTargetDaysMatch ==
    /\ \A a \in 1..Len(pitcher_analyses) :
           pitcher_analyses[a].confirmed_start_date
               \in {fantasy_week.start_date, fantasy_week.start_date + 1}
    /\ pc \in {"returned", "stored"} =>
           Len(pitcher_analyses)
               <= Cardinality({i \in 1..Len(confirmed_starters) : OnMondayOrTuesday(i)})

\* a run with a Wednesday start that has a candidate, and a match of another start
C9_Witness ==
    /\ pc = "returned"
    /\ \E i \in 1..Len(confirmed_starters) :
           /\ confirmed_starters[i].date = fantasy_week.start_date + 2
           /\ HasCandidate(i)
    /\ Len(confirmed_starters) = 2
    /\ Len(pitcher_analyses) = 1

\* two different confirmed starts on target days that normalize to the same name
SameNameStarts(i, j) ==
    /\ i < j
    /\ OnMondayOrTuesday(i) /\ OnMondayOrTuesday(j)
    /\ slugify(confirmed_starters[i].name) = slugify(confirmed_starters[j].name)
    /\ HasCandidate(i)

\* C10: two different confirmed starts on target days that normalize to the same name
\* and match the same candidate give two MatchedPitcher entries, each with the date of
\* its own start and the second-start flag of its own team and date.
C10_BothStartsKept ==
    pc \in {"returned", "stored"} =>
        \A i \in 1..Len(confirmed_starters) : \A j \in 1..Len(confirmed_starters) :
            SameNameStarts(i, j)
            => \E p \in 1..Len(pitcher_analyses) : \E q \in 1..Len(pitcher_analyses) :
                   /\ p # q
                   /\ pitcher_analyses[p].player = pitcher_analyses[q].player
                   /\ pitcher_analyses[p].confirmed_start_date = confirmed_starters[i].date
                   /\ pitcher_analyses[q].confirmed_start_date = confirmed_starters[j].date
                   /\ pitcher_analyses[p].potential_second_start
                          = FifthGameByWeekEnd(confirmed_starters[i].team_id,
                                confirmed_starters[i].date, fantasy_week.end_date)
                   /\ pitcher_analyses[q].potential_second_start
                          = FifthGameByWeekEnd(confirmed_starters[j].team_id,
                                confirmed_starters[j].date, fantasy_week.end_date)

\* the part of C10 that holds: both entries are kept, each with the date of its own
\* start; the flag of each is False
BothStartsKeptWithOwnDates ==
    pc \in {"returned", "stored"} =>
        \A i \in 1..Len(confirmed_starters) : \A j \in 1..Len(confirmed_starters) :
            SameNameStarts(i, j)
            => \E p \in 1..Len(pitcher_analyses) : \E q \in 1..Len(pitcher_analyses) :
                   /\ p # q
                   /\ pitcher_analyses[p].player = pitcher_analyses[q].player
                   /\ pitcher_analyses[p].confirmed_start_date = confirmed_starters[i].date
                   /\ pitcher_analyses[q].confirmed_start_date = confirmed_starters[j].date
                   /\ ~pitcher_analyses[p].potential_second_start
                   /\ ~pitcher_analyses[q].potential_second_start

\* the priority the specification gives a match
ClaimedPriority(a) ==
    (IF a.player.source = "My Team" THEN 1000 ELSE 0)
    + (IF a.potential_second_start THEN 500 ELSE 0)
    + (IF a.confirmed_start_date % 7 \in {0, 1} THEN 100 ELSE 0)
    + (a.player.percent_owned \div 10)

CountOf(s, e) == Cardinality({i \in 1..Len(s) : s[i] = e})

\* t holds the entries of s, each as often as s does
SameEntries(s, t) ==
    /\ Len(s) = Len(t)
    /\ \A i \in 1..Len(s) : CountOf(s, s[i]) = CountOf(t, s[i])

\* the step in which the ranker sorts the list of matches
RankStep == pc = "matching" /\ pc' = "returned"

\* C11: the list the ranker returns is ordered by non-increasing priority (1000 for a
\* My Team candidate, 500 for a likely second start, 100 for a Monday or Tuesday date,
\* plus the floor of the ownership), and it is a permutation of the matched entries.
C11_RankedByPriority ==
    /\ [](pc \in {"returned", "stored"} =>
             \A i \in 1..(Len(pitcher_analyses) - 1) :
                 ClaimedPriority(pitcher_analyses[i]) >= ClaimedPriority(pitcher_analyses[i + 1]))
    /\ [][RankStep => SameEntries(pitcher_analyses, pitcher_analyses')]_vars

\* a ranked list of three whose entries left their input order, led by a likely
\* second start of a waiver candidate
C11_Witness ==
    /\ pc = "returned"
    /\ Len(pitcher_analyses) = 3
    /\ pitcher_analyses[1].player.yahoo_player_id = 3
    /\ pitcher_analyses[1].potential_second_start
    /\ pitcher_analyses[1].player.source = "Waiver"
    /\ ClaimedPriority(pitcher_analyses[1]) > ClaimedPriority(pitcher_analyses[2])
    /\ ClaimedPriority(pitcher_analyses[2]) > ClaimedPriority(pitcher_analyses[3])

\* the place of entry e in the list s
PlaceOf(s, e) == CHOOSE i \in 1..Len(s) : s[i] = e

\* C12: ranking is stable and deterministic: entries of equal priority keep the
\* relative order of the input, and ranking a ranked list leaves it unchanged.
C12_RankingStable ==
    /\ [][RankStep =>
            /\ \A i \in 1..Len(pitcher_analyses) : \A j \in 1..Len(pitcher_analyses) :
                   ( /\ i < j
                     /\ ClaimedPriority(pitcher_analyses[i]) = ClaimedPriority(pitcher_analyses[j]) )
                   => PlaceOf(pitcher_analyses', pitcher_analyses[i])
                          < PlaceOf(pitcher_analyses', pitcher_analyses[j])
            /\ SortByPriority(pitcher_analyses') = pitcher_analyses'
            /\ SortByPriority(pitcher_analyses) = pitcher_analyses']_vars
    /\ [](pc \in {"returned", "stored"} => SortByPriority(pitcher_analyses) = pitcher_analyses)

\* a ranked list in which candidates 1 and 3 tie behind candidate 2
C12_Witness ==
    /\ pc = "returned"
    /\ Len(pitcher_analyses) = 3
    /\ pitcher_analyses[1].player.yahoo_player_id = 2
    /\ pitcher_analyses[2].player.yahoo_player_id = 1
    /\ pitcher_analyses[3].player.yahoo_player_id = 3
    /\ ClaimedPriority(pitcher_analyses[2]) = ClaimedPriority(pitcher_analyses[3])
    /\ pitcher_analyses[2].player.percent_owned # pitcher_analyses[3].player.percent_owned

\* C13: the recommendation score of a MatchedPitcher is ownership/100, plus 2.0 for a
\* My Team candidate, plus 1.5 for a likely second start, and nothing else; it lies in
\* 0..4.5.  Scores are in thousandths and ownership in tenths of a percent.
C13_ScoreIsSumOfThreeTerms ==
    \A i \in 1..Len(pitcher_analyses) :
        LET a == pitcher_analyses[i]
        IN  /\ a.recommendation_score
                   = a.player.percent_owned
                     + (IF a.player.source = "My Team" THEN 2000 ELSE 0)
                     + (IF a.potential_second_start THEN 1500 ELSE 0)
            /\ a.recommendation_score >= 0
            /\ a.recommendation_score <= 4500

\* a returned list with the highest score, 4.5, and the lowest, 0
C13_Witness ==
    /\ pc = "returned"
    /\ \E i \in 1..Len(pitcher_analyses) :
           /\ pitcher_analyses[i].recommendation_score = 4500
           /\ pitcher_analyses[i].potential_second_start
           /\ pitcher_analyses[i].player.source = "My Team"
    /\ \E i \in 1..Len(pitcher_analyses) :
           /\ pitcher_analyses[i].recommendation_score = 0
           /\ pitcher_analyses[i].player.source = "Waiver"

\* the rationale the specification gives: the phrases in their order, joined by "; "
ClaimedReason(roster, flagged, ownership) ==
    LET low == ownership < 500
        high == ownership > 800
    IN  CASE roster /\ flagged /\ low -> "Already on your team; Likely second start; Low ownership"
          [] roster /\ flagged /\ high -> "Already on your team; Likely second start; High ownership"
          [] roster /\ flagged /\ ~low /\ ~high -> "Already on your team; Likely second start"
          [] roster /\ ~flagged /\ low -> "Already on your team; Low ownership"
          [] roster /\ ~flagged /\ high -> "Already on your team; High ownership"
          [] roster /\ ~flagged /\ ~low /\ ~high -> "Already on your team"
          [] ~roster /\ flagged /\ low -> "Likely second start; Low ownership"
          [] ~roster /\ flagged /\ high -> "Likely second start; High ownership"
          [] ~roster /\ flagged /\ ~low /\ ~high -> "Likely second start"
          [] ~roster /\ ~flagged /\ low -> "Low ownership"
          [] ~roster /\ ~flagged /\ high -> "High ownership"
          [] ~roster /\ ~flagged /\ ~low /\ ~high -> "Confirmed Monday/Tuesday start"

\* C14: the rationale is "Already on your team" (iff roster), "Likely second start"
\* (iff flagged), then "Low ownership" (iff ownership < 50) or "High ownership" (iff
\* ownership > 80), joined by "; "; it is "Confirmed Monday/Tuesday start" exactly for
\* an unflagged waiver pitcher with ownership from 50 to 80.
C14_RationalePhrases ==
    \A i \in 1..Len(pitcher_analyses) :
        LET a == pitcher_analyses[i]
        IN  /\ a.recommendation_reason
                   = ClaimedReason(a.player.source = "My Team", a.potential_second_start,
                                   a.player.percent_owned)
            /\ a.recommendation_reason = "Confirmed Monday/Tuesday start"
                   <=> ( /\ a.player.source = "Waiver"
                         /\ ~a.potential_second_start
                         /\ a.player.percent_owned >= 500
                         /\ a.player.percent_owned <= 800 )

\* a returned list with the literal rationale at both ends of its range, 50 and 80, and
\* the ownership phrases right outside it, 49.9 and 80.1
C14_Witness ==
    /\ pc = "returned"
    /\ \E i \in 1..Len(pitcher_analyses) :
           /\ pitcher_analyses[i].player.percent_owned = 500
           /\ pitcher_analyses[i].recommendation_reason = "Confirmed Monday/Tuesday start"
    /\ \E i \in 1..Len(pitcher_analyses) :
           /\ pitcher_analyses[i].player.percent_owned = 800
           /\ pitcher_analyses[i].recommendation_reason = "Confirmed Monday/Tuesday start"
    /\ \E i \in 1..Len(pitcher_analyses) :
           /\ pitcher_analyses[i].player.percent_owned \in {499, 801}
           /\ pitcher_analyses[i].recommendation_reason \in {"Low ownership", "High ownership"}

EntriesFrom(source) ==
    {i \in 1..Len(pitcher_analyses) : pitcher_analyses[i].player.source = source}

\* C15: whenever analyze_next_fantasy_week returns, the report has the completion flag
\* true, a total equal to the length of the returned list, roster and waiver counts
\* equal to the numbers of My Team and Waiver entries, and total = roster + waiver; a
\* run in which no confirmed start matches returns total 0 with the flag true.
C15_ReportCountsReturnedList ==
    pc \in {"returned", "stored"} =>
        /\ fantasy_week.analysis_completed
        /\ fantasy_week.total_pitchers_analyzed = Len(pitcher_analyses)
        /\ fantasy_week.my_team_pitchers = Cardinality(EntriesFrom("My Team"))
        /\ fantasy_week.waiver_pitchers = Cardinality(EntriesFrom("Waiver"))
        /\ fantasy_week.total_pitchers_analyzed
               = fantasy_week.my_team_pitchers + fantasy_week.waiver_pitchers
        /\ (\A i \in 1..Len(confirmed_starters) : ~(OnMondayOrTuesday(i) /\ HasCandidate(i)))
               => fantasy_week.total_pitchers_analyzed = 0

\* a run that returned one My Team match and one Waiver match
C15_Witness ==
    /\ pc = "returned"
    /\ Len(pitcher_analyses) = 2
    /\ Cardinality(EntriesFrom("My Team")) = 1
    /\ Cardinality(EntriesFrom("Waiver")) = 1
    /\ fantasy_week.total_pitchers_analyzed = 2

\* an entry the post-filter has to keep under the stored settings
KeptByFilter(a) ==
    /\ a.player.percent_owned >= settings.ownership_threshold * 10
    /\ (settings.show_waiver_players \/ a.player.source # "Waiver")

\* C16: the post-filter drops every entry whose ownership is below the ownership
\* threshold and, when waiver inclusion is disabled, every Waiver entry; it keeps
\* every other entry, and the kept entries keep their ranked order.
C16_FilterKeepsRankedOrder ==
    pc = "stored" =>
        LET kept == analysis_results.pitcher_analyses
        IN  /\ \A j \in 1..Len(kept) : KeptByFilter(kept[j])
            /\ \A i \in 1..Len(pitcher_analyses) :
                   CountOf(kept, pitcher_analyses[i])
                       = IF KeptByFilter(pitcher_analyses[i])
                         THEN CountOf(pitcher_analyses, pitcher_analyses[i])
                         ELSE 0
            /\ Len(kept) = Cardinality({i \in 1..Len(pitcher_analyses) :
                                           KeptByFilter(pitcher_analyses[i])})
            /\ \A j \in 1..Len(kept) : \A k \in 1..Len(kept) :
                   j < k => PlaceOf(pitcher_analyses, kept[j]) < PlaceOf(pitcher_analyses, kept[k])

\* a filter with threshold 50 that dropped the entry ranked second, owned 49.9, and kept
\* the first and, behind it, the third, owned exactly 50
C16_Witness ==
    /\ pc = "stored"
    /\ settings.ownership_threshold = 50
    /\ Len(pitcher_analyses) = 3
    /\ pitcher_analyses[2].player.percent_owned = 499
    /\ pitcher_analyses[3].player.percent_owned = 500
    /\ Len(analysis_results.pitcher_analyses) = 2
    /\ analysis_results.pitcher_analyses[1] = pitcher_analyses[1]
    /\ analysis_results.pitcher_analyses[2] = pitcher_analyses[3]

\* the Monday and Tuesday starts of the run that have a candidate
MatchedStarts ==
    {i \in 1..Len(confirmed_starters) : OnMondayOrTuesday(i) /\ HasCandidate(i)}

ClientToleratesFetchFailure ==
    (~mlb_up /\ second_start # <<>>) => (second_start[1] = FALSE /\ error = "none")

AttributesOfAll(players) == [i \in 1..Len(players) |-> Attributes(players[i])]

\* C18: a failed roster, waiver or confirmed-starters fetch is replaced by an empty
\* collection for that source only: the run goes on to return with the completion flag
\* true, and the pool holds the candidates of the source that did not fail (after a
\* failed waiver fetch, exactly the roster pitchers).
C18_FailedFetchGivesEmptySource ==
    /\ "waiver" \in failed_fetches => waiver_pitchers = <<>>
    /\ "roster" \in failed_fetches => my_team_pitchers = <<>>
    /\ "starters" \in failed_fetches => confirmed_starters = <<>>
    /\ pc \in {"combined", "matching", "returned", "stored"} =>
           /\ "waiver" \in failed_fetches =>
                  AttributesOfAll(all_pitchers) = AttributesOfAll(my_team_pitchers)
           /\ "roster" \in failed_fetches =>
                  AttributesOfAll(all_pitchers) = AttributesOfAll(waiver_pitchers)
           /\ Len(all_pitchers) = Len(waiver_pitchers) + Len(my_team_pitchers)
    /\ failed_fetches # {} =>
           /\ error = "none"
           /\ pc \in {"waiver", "combined", "matching", "returned", "stored"}
           /\ pc \in {"waiver", "combined", "matching"} => ENABLED Next
           /\ pc \in {"returned", "stored"} => fantasy_week.analysis_completed

\* a run whose waiver fetch failed and that returned a match of a roster pitcher
C18_Witness ==
    /\ pc = "returned"
    /\ failed_fetches = {"waiver"}
    /\ my_team_pitchers # <<>>
    /\ AttributesOfAll(all_pitchers) = AttributesOfAll(my_team_pitchers)
    /\ Len(pitcher_analyses) >= 1
    /\ pitcher_analyses[1].player.source = "My Team"
    /\ fantasy_week.analysis_completed

\* C19: analyze_next_fantasy_week never returns a partially built report: it either
\* returns with analysis_completed true and its three counts set, or raises
\* AnalysisError and returns nothing; no other exception leaves it.
C19_CompleteReportOrAnalysisError ==
    /\ error \in {"none", "AnalysisError"}
    /\ error = "AnalysisError" <=> pc = "raised"
    /\ pc = "raised" =>
           /\ ~IsWindow(fantasy_week)
           /\ pitcher_analyses = <<>>
           /\ analysis_results = NoValue
           /\ ~ENABLED Next
    /\ pc \in {"returned", "stored"} =>
           /\ fantasy_week.analysis_completed
           /\ fantasy_week.total_pitchers_analyzed = Len(pitcher_analyses)
           /\ fantasy_week.my_team_pitchers = Cardinality(EntriesFrom("My Team"))
           /\ fantasy_week.waiver_pitchers = Cardinality(EntriesFrom("Waiver"))
    /\ pc = "stored" => analysis_results.fantasy_week.analysis_completed
    /\ (IsWindow(fantasy_week) /\ ~fantasy_week.analysis_completed) =>
           pc \in {"week", "waiver", "combined", "matching"}

\* a run that ended in AnalysisError: the one started on Wednesday 2026-12-23
C19_Witness ==
    /\ pc = "raised"
    /\ error = "AnalysisError"
    /\ today = 1087
    /\ analysis_results = NoValue

\* the calls of get_team_schedule in the log of the client
ScheduleCalls == {i \in 1..Len(schedule_log) : schedule_log[i].op = "get_team_schedule"}

\* the triple (teamId, scanStart, scanEnd) of a logged call
TripleOf(i) == <<schedule_log[i].team_id, schedule_log[i].start_date, schedule_log[i].end_date>>

\* call i returned a schedule for the triple of the later call j, with no clear_cache
\* between the two
AnsweredBefore(i, j) ==
    /\ i \in ScheduleCalls
    /\ i < j
    /\ schedule_log[i].raised = "none"
    /\ TripleOf(i) = TripleOf(j)
    /\ \A k \in i..j : schedule_log[k].op # "clear_cache"

SucceededRequests ==
    {i \in ScheduleCalls : schedule_log[i].requests = 1 /\ schedule_log[i].raised = "none"}

\* C20: team schedules are memoised per (teamId, scanStart, scanEnd): after a successful
\* get_team_schedule, a later call with the same triple and no clear_cache in between
\* returns the same dates without an upstream request; a call whose triple differs from
\* every such earlier call issues its own request; without clear_cache the requests that
\* succeed are at most the distinct triples looked up.
C20_ScheduleMemoisedPerTriple ==
    /\ \A j \in ScheduleCalls : \A i \in 1..Len(schedule_log) :
           AnsweredBefore(i, j) =>
               /\ schedule_log[j].raised = "none"
               /\ schedule_log[j].dates = schedule_log[i].dates
               /\ schedule_log[j].requests = 0
    /\ \A j \in ScheduleCalls :
           (\A i \in 1..Len(schedule_log) : ~AnsweredBefore(i, j)) =>
               schedule_log[j].requests = 1
    /\ (\A k \in 1..Len(schedule_log) : schedule_log[k].op # "clear_cache") =>
           Cardinality(SucceededRequests) <= Cardinality({TripleOf(i) : i \in ScheduleCalls})
    /\ upstream_calls >= Cardinality(SucceededRequests)

\* a triple fetched, a triple with another end date fetched, then the first triple asked
\* again while upstream is down: answered from the cache with the dates of the first call
C20_Witness ==
    /\ Len(schedule_log) = 3
    /\ ScheduleCalls = {1, 2, 3}
    /\ TripleOf(1) = TripleOf(3)
    /\ TripleOf(2)[1] = TripleOf(1)[1]
    /\ TripleOf(2)[2] = TripleOf(1)[2]
    /\ TripleOf(2)[3] # TripleOf(1)[3]
    /\ schedule_log[1].requests = 1
    /\ schedule_log[2].requests = 1
    /\ schedule_log[2].raised = "none"
    /\ schedule_log[3].requests = 0
    /\ schedule_log[3].dates = schedule_log[1].dates
    /\ schedule_log[3].dates # <<>>
    /\ ~mlb_up
    /\ upstream_calls = 2

\* C21: the normalizer is idempotent: slugify applied to its own output returns it
\* unchanged, for every input.
C21_SlugifyIdempotent ==
    Len(text_out) = 2 => text_out[2] = text_out[1]

\* " E.-_e" normalizes to "e-_e", and so does "e-_e"
C21_Witness ==
    /\ Len(text_out) = 2
    /\ Len(text_in) >= 4
    /\ text_in # text_out[1]
    /\ Len(text_out[1]) >= 3
    /\ \E i \in 1..Len(text_in) : text_in[i] = "E"
    /\ \E i \in 1..Len(text_in) : text_in[i] = "."
    /\ text_out[2] = text_out[1]

\* the characters the normalizer is said to let through
IsSlugChar(c) == c \in {"e", "1", "-"}

\* C22: the output of the normalizer holds only lower-case letters, digits and hyphens,
\* no two hyphens in a row, and no hyphen at either end.
C22_SlugAlphabetAndHyphens ==
    \A k \in 1..Len(text_out) :
        LET slug == text_out[k]
        IN  /\ \A i \in 1..Len(slug) : IsSlugChar(slug[i])
            /\ \A i \in 1..(Len(slug) - 1) : ~(slug[i] = "-" /\ slug[i + 1] = "-")
            /\ slug # <<>> => (slug[1] # "-" /\ slug[Len(slug)] # "-")

\* what the code does keep: word characters (the underscore among them) and single
\* hyphens, which may stand at either end
SlugOfWordCharsAndSingleHyphens ==
    \A k \in 1..Len(text_out) :
        LET slug == text_out[k]
        IN  /\ \A i \in 1..Len(slug) : slug[i] \in {"e", "1", "_", "-"}
            /\ \A i \in 1..(Len(slug) - 1) : ~(slug[i] = "-" /\ slug[i + 1] = "-")

\* the entries of a pool that carry a provenance tag, in the order of the pool
TaggedAs(pool, source) == SelectSeq(pool, LAMBDA p : p.source = source)

\* C23: the merger is a pure concatenation: the merged pool has len(roster) + len(waiver)
\* entries, holds every candidate of either list with its provenance tag, in the order of
\* its list, and drops no duplicate.
C23_MergerIsConcatenation ==
    pc = "merged" =>
        /\ Len(all_pitchers) = Len(my_team_pitchers) + Len(waiver_pitchers)
        /\ TaggedAs(all_pitchers, "Waiver") = waiver_pitchers
        /\ TaggedAs(all_pitchers, "My Team") = my_team_pitchers
        /\ \A i \in 1..Len(all_pitchers) : all_pitchers[i].source \in {"Waiver", "My Team"}

\* two full lists with the same player (name, Yahoo id, ownership) in both: the merged
\* pool holds that player twice, once per provenance
C23_Witness ==
    /\ pc = "merged"
    /\ Len(waiver_pitchers) = 2
    /\ Len(my_team_pitchers) = 2
    /\ Len(all_pitchers) = 4
    /\ waiver_pitchers[1].name = my_team_pitchers[2].name
    /\ waiver_pitchers[1].yahoo_player_id = my_team_pitchers[2].yahoo_player_id
    /\ waiver_pitchers[1].percent_owned = my_team_pitchers[2].percent_owned
    /\ \E i, j \in 1..4 :
           /\ i # j
           /\ all_pitchers[i].yahoo_player_id = all_pitchers[j].yahoo_player_id
           /\ all_pitchers[i].name = all_pitchers[j].name
           /\ all_pitchers[i].source = "Waiver"
           /\ all_pitchers[j].source = "My Team"

\* the dates of a window whose weekday name is among its target days, in ascending order
WindowTargetDates(week) ==
    SelectSeq([i \in 1..(week.end_date - week.start_date + 1) |-> week.start_date + i - 1],
              LAMBDA d : InList(DayName(d), week.target_days))

\* C24: for every window, those crossing a month or year boundary included, target_dates
\* returns without error exactly the dates of the window whose weekday name is a target
\* day, in ascending order, the same list as get_target_analysis_dates; for the default
\* target days that is [start, start + 1 day].
C24_TargetDatesOfEveryWindow ==
    /\ target_dates # <<>> =>
           /\ target_dates[1].raised = "none"
           /\ target_dates[1].dates = WindowTargetDates(fantasy_week)
           /\ fantasy_week.target_days = <<"Monday", "Tuesday">> =>
                  target_dates[1].dates = <<fantasy_week.start_date, fantasy_week.start_date + 1>>
    /\ (target_dates # <<>> /\ analysis_dates # <<>>) =>
           target_dates[1].dates = analysis_dates[1]

\* the last day of a month lies in the window
MonthEndsInWindow(week) ==
    \E d \in week.start_date..week.end_date : MonthOf(d + 1) # MonthOf(d)

\* what the code does: target_dates raises ValueError exactly for the windows that hold
\* the last day of a month, and returns the dates of the target days for the others;
\* get_target_analysis_dates returns them for every window
TargetDatesRaisesAtMonthEnd ==
    /\ target_dates # <<>> =>
           IF MonthEndsInWindow(fantasy_week)
           THEN target_dates[1].raised = "ValueError"
           ELSE /\ target_dates[1].raised = "none"
                /\ target_dates[1].dates = WindowTargetDates(fantasy_week)
    /\ analysis_dates # <<>> => analysis_dates[1] = WindowTargetDates(fantasy_week)

\* C25: CacheService honours an explicit time-to-live: after set(k, v, ttl=t) with an
\* explicit t >= 0, t = 0 included, and no other set, delete or clear of k, get(k) returns
\* v up to t seconds after the set and the default later, and an entry that get finds
\* expired is removed from the level where it was found.
C25_ExplicitTtlHonoured ==
    (Len(memory_cache) = 1 /\ last_get # <<>>) =>
        LET got == last_get[1]
            write == last_write[got.key]
        IN  /\ (write.op = "set" /\ write.ttl # <<>>) =>
                   IF got.at <= write.at + write.ttl[1]
                   THEN got.found /\ got.value = write.value
                   ELSE ~got.found
            /\ (got.memory_before # <<>> /\ IsExpired(got.memory_before[1], got.at)) =>
                   memory_cache[got.inst][got.key] = <<>>
            /\ (got.session_before # <<>> /\ IsExpired(got.session_before[1], got.at)) =>
                   session_cache[got.key] = <<>>

\* what the code does: a time-to-live of 0 is taken for no time-to-live, so the entry
\* lives for the default time; every other explicit time-to-live is honoured
PositiveTtlHonoured ==
    (Len(memory_cache) = 1 /\ last_get # <<>>) =>
        LET got == last_get[1]
            write == last_write[got.key]
            lifetime == IF write.ttl = <<>> \/ write.ttl = <<0>>
                        THEN DEFAULT_CACHE_TTL_SECONDS ELSE write.ttl[1]
        IN  /\ write.op = "set" =>
                   IF got.at <= write.at + lifetime
                   THEN got.found /\ got.value = write.value
                   ELSE ~got.found
            /\ (got.memory_before # <<>> /\ IsExpired(got.memory_before[1], got.at)) =>
                   memory_cache[got.inst][got.key] = <<>>
            /\ (got.session_before # <<>> /\ IsExpired(got.session_before[1], got.at)) =>
                   session_cache[got.key] = <<>>

\* C30: with two CacheService instances on one session-state store, under any
\* interleaving of their calls, get(k) on either instance never returns a value older
\* than the most recent set(k, .) through either instance, and never returns a value for
\* a key whose most recent operation through either instance was delete(k) or clear().
C30_SharedStoreNeverStale ==
    (Len(memory_cache) = 2 /\ last_get # <<>>) =>
        LET got == last_get[1]
            write == last_write[got.key]
        IN  /\ (write.op = "set" /\ got.found) => got.value = write.value
            /\ write.op \in {"delete", "clear"} => ~got.found

\* what the code does: a get is never stale with respect to the calls made through the
\* instance that serves it when the other instance made none on that key; one instance
\* alone is never stale
SingleServiceNeverStale ==
    (Len(memory_cache) = 1 /\ last_get # <<>>) =>
        LET got == last_get[1]
            write == last_write[got.key]
        IN  /\ (write.op = "set" /\ got.found) => got.value = write.value
            /\ write.op \in {"none", "delete", "clear"} => ~got.found

\* C26: in the ranked output every My Team entry precedes every Waiver entry; among the
\* entries of one provenance every entry flagged for a second start precedes every
\* unflagged one; ownership only orders entries that agree on provenance and flag.
C26_ProvenanceThenFlagThenOwnership ==
    pc \in {"returned", "stored"} =>
        \A i, j \in 1..Len(pitcher_analyses) :
            i < j =>
                LET a == pitcher_analyses[i]
                    b == pitcher_analyses[j]
                IN  /\ ~(a.player.source = "Waiver" /\ b.player.source = "My Team")
                    /\ a.player.source = b.player.source =>
                           ~(~a.potential_second_start /\ b.potential_second_start)
                    /\ (a.player.source = b.player.source
                        /\ a.potential_second_start = b.potential_second_start) =>
                           a.player.percent_owned \div 10 >= b.player.percent_owned \div 10

\* the match found last, an unflagged roster pitcher nobody else owns, is ranked first,
\* ahead of a flagged waiver pitcher owned by everybody, who is ahead of an unflagged one
C26_Witness ==
    /\ pc = "returned"
    /\ Len(pitcher_analyses) = 3
    /\ pitcher_analyses[1].player.yahoo_player_id = 3
    /\ pitcher_analyses[1].player.source = "My Team"
    /\ ~pitcher_analyses[1].potential_second_start
    /\ pitcher_analyses[1].player.percent_owned = 0
    /\ pitcher_analyses[2].player.yahoo_player_id = 2
    /\ pitcher_analyses[2].player.source = "Waiver"
    /\ pitcher_analyses[2].potential_second_start
    /\ pitcher_analyses[2].player.percent_owned = 500
    /\ pitcher_analyses[3].player.source = "Waiver"
    /\ ~pitcher_analyses[3].potential_second_start
    /\ pitcher_analyses[3].player.percent_owned = 1000

\* at least 5 game days of the team in firstStartDate + 1 .. windowEnd
FiveGamesInWindow(team_id, first_start_date, week_end) ==
    Cardinality(GameDays(team_id, first_start_date + 1, week_end)) >= 5

\* what the counting rule asks of an answer of a second-start check: true exactly for 5
\* game days in the window, and after a Tuesday start only when the team plays on each
\* day from Wednesday to Sunday
CountsWindowGames(answer) ==
    /\ answer = FiveGamesInWindow(CheckTeam, first_start, fantasy_week.end_date)
    /\ (answer /\ first_start = fantasy_week.start_date + 1) =>
           GameDays(CheckTeam, fantasy_week.start_date + 2, fantasy_week.end_date)
               = (fantasy_week.start_date + 2)..fantasy_week.end_date

\* C27: for an ascending, duplicate-free list of game dates returned for the scan range,
\* a second-start check is true exactly when the team has at least 5 game dates in
\* firstStartDate + 1 .. windowEnd, whatever is played in the 5 days after windowEnd; for
\* a Tuesday first start it is true only if the team plays on each day from Wednesday to
\* Sunday.  This holds for both second-start checks.
C27_SecondStartCountsWindowGames ==
    mlb_up =>
        /\ second_start # <<>> => CountsWindowGames(second_start[1])
        /\ svc_second_start # <<>> => CountsWindowGames(svc_second_start[1])

\* the half of C27 that holds: the check of the MLB client counts the games of the window
ClientSecondStartCountsWindowGames ==
    (mlb_up /\ second_start # <<>>) => CountsWindowGames(second_start[1])

\* the first entry of a response that names a pitcher id
FirstOccurrence(data, pid) ==
    data[CHOOSE i \in 1..Len(data) : data[i].id = pid /\ \A j \in 1..(i - 1) : data[j].id # pid]

\* the pitcher ids whose pass of the matcher loop is over
ProcessedIds ==
    {confirmed_starters[i].pid : i \in {k \in 1..Len(confirmed_starters) : k < starter_index}}

\* C28: each MLB pitcher id contributes at most one confirmed start, and so at most one
\* match per run: of the entries of the upstream response with one pitcher id, the first
\* one met is kept, whatever its date, and the later ones are ignored.
C28_FirstStartOfEachPitcherKept ==
    (pc \in {"matching", "returned", "stored"} /\ ~upstream_answers.starters.failed) =>
        /\ \A i, j \in 1..Len(confirmed_starters) :
               i # j => confirmed_starters[i].pid # confirmed_starters[j].pid
        /\ {confirmed_starters[i].pid : i \in 1..Len(confirmed_starters)}
               = {upstream_answers.starters.data[k].id : k \in 1..Len(upstream_answers.starters.data)}
        /\ \A i \in 1..Len(confirmed_starters) :
               LET first == FirstOccurrence(upstream_answers.starters.data, confirmed_starters[i].pid)
               IN  /\ confirmed_starters[i].date = ParseDate(first.date)
                   /\ confirmed_starters[i].name = first.fullName
                   /\ confirmed_starters[i].team_id = first.team_id
        /\ Len(pitcher_analyses) <= Cardinality(ProcessedIds)

\* upstream lists pitcher 101 on Tuesday and then on Monday: the Tuesday start is the
\* one kept, and the one match of the run is dated Tuesday
C28_Witness ==
    /\ pc = "returned"
    /\ ~upstream_answers.starters.failed
    /\ Len(upstream_answers.starters.data) = 2
    /\ upstream_answers.starters.data[1].id = upstream_answers.starters.data[2].id
    /\ ParseDate(upstream_answers.starters.data[1].date) = fantasy_week.start_date + 1
    /\ ParseDate(upstream_answers.starters.data[2].date) = fantasy_week.start_date
    /\ Len(confirmed_starters) = 1
    /\ confirmed_starters[1].date = fantasy_week.start_date + 1
    /\ Len(pitcher_analyses) = 1
    /\ pitcher_analyses[1].confirmed_start_date = fantasy_week.start_date + 1

\* whether a record of a response is a pitcher record that fails the validation of Player
FailsValidation(player_data) ==
    /\ IsPitcherPositions(player_data.eligible_positions)
    /\ IsRaised(NewPlayer(player_data, "Waiver"))

\* the players of the pitcher records of a response that pass the validation, in order
ValidPitchers(response, source) ==
    LET kept == SelectSeq(response.data,
                    LAMBDA r : IsPitcherPositions(r.eligible_positions) /\ ~FailsValidation(r))
    IN  [i \in 1..Len(kept) |-> NewPlayer(kept[i], source)]

\* what a source contributes when one record of its response spoils the whole response
PoolOfAnswer(response, source) ==
    IF response.failed \/ \E i \in 1..Len(response.data) : FailsValidation(response.data[i])
    THEN <<>>
    ELSE ValidPitchers(response, source)

\* C29: one record of the roster or waiver response that fails the validation of Player
\* (an ownership outside 0..100) makes that source contribute no pitchers at all, its
\* valid records included; the other source contributes all of its pitchers, and the run
\* goes on from each fetch without an error and returns a completed week.
C29_InvalidRecordEmptiesItsSource ==
    /\ pc \in {"waiver", "combined", "matching", "returned", "stored"} =>
           waiver_pitchers = PoolOfAnswer(upstream_answers.waiver, "Waiver")
    /\ pc \in {"combined", "matching", "returned", "stored"} =>
           /\ my_team_pitchers = PoolOfAnswer(upstream_answers.roster, "My Team")
           /\ Len(all_pitchers) = Len(waiver_pitchers) + Len(my_team_pitchers)
    /\ pc # "raised" /\ error = "none"
    /\ pc = "week" => ENABLED GetWaiverPitchers
    /\ pc = "waiver" => ENABLED GetMyTeamPitchers
    /\ pc \in {"returned", "stored"} => fantasy_week.analysis_completed

\* the roster response holds a valid pitcher and one whose ownership is 150%: the roster
\* pool is empty, and the run returns the match of the waiver pitcher
C29_Witness ==
    /\ pc = "returned"
    /\ \E i \in 1..Len(upstream_answers.roster.data) :
           FailsValidation(upstream_answers.roster.data[i])
    /\ ValidPitchers(upstream_answers.roster, "My Team") # <<>>
    /\ my_team_pitchers = <<>>
    /\ waiver_pitchers # <<>>
    /\ waiver_pitchers = ValidPitchers(upstream_answers.waiver, "Waiver")
    /\ Len(pitcher_analyses) >= 1
    /\ \A i \in 1..Len(pitcher_analyses) : pitcher_analyses[i].player.source = "Waiver"
    /\ fantasy_week.analysis_completed

====
